---------------------------- MODULE Spec2Model ----------------------------
(***************************************************************************)
(* A model of the resolution-fetch-cache pipeline of yuki (a package       *)
(* manager for Zig): the fetch cache (cache/cache.go), the fetcher and its *)
(* reference resolver (package fetch), the install pre-resolver (package   *)
(* resolver), the version model (package semver), the tree checksum        *)
(* (integrity/integrity.go) and the consistency check (cli/sync.go).       *)
(*                                                                         *)
(* Go strings whose characters the code inspects are sequences of          *)
(* one-character strings; names that are only compared are TLA+ strings.   *)
(***************************************************************************)
EXTENDS Integers, Sequences, FiniteSets, TLC

VARIABLES
    entries,    \* Cache.entries: the in-memory key -> Entry mapping
    index,      \* index.json under the cache root: key -> JSON object
    dirs,       \* directories on disk: path -> directory tree
    remote,     \* the remote repository: tags, latest release, branch tips
    last,       \* the last completed operation, its inputs and its result
    lastOn,     \* per key, what this Cache instance last did on it
    rs,         \* state of the resolver specification
    inst,       \* state of the install specification
    sum,        \* state of the checksum specification
    sync        \* state of the consistency-check specification

vars == <<entries, index, dirs, remote, last, lastOn, rs, inst, sum, sync>>

Idle == [op |-> "idle"]

-----------------------------------------------------------------------------
(* Go string functions, on sequences of characters.                        *)

\* strings.HasPrefix
HasPrefix(s, p) == Len(s) >= Len(p) /\ SubSeq(s, 1, Len(p)) = p

\* strings.HasSuffix
HasSuffix(s, p) == Len(s) >= Len(p) /\ SubSeq(s, Len(s) - Len(p) + 1, Len(s)) = p

\* strings.TrimPrefix
TrimPrefix(s, p) == IF HasPrefix(s, p) THEN SubSeq(s, Len(p) + 1, Len(s)) ELSE s

\* strings.Contains
Contains(s, sub) ==
    \E i \in 1..(Len(s) - Len(sub) + 1) : SubSeq(s, i, i + Len(sub) - 1) = sub

\* strings.Join
RECURSIVE Join(_, _)
Join(parts, sep) ==
    IF parts = <<>> THEN <<>>
    ELSE IF Len(parts) = 1 THEN parts[1]
    ELSE parts[1] \o sep \o Join(Tail(parts), sep)

\* strings.Split on a one-character separator
RECURSIVE Split(_, _)
Split(s, sep) ==
    IF \A i \in 1..Len(s) : s[i] # sep THEN <<s>>
    ELSE LET i == CHOOSE j \in 1..Len(s) :
                      s[j] = sep /\ \A m \in 1..(j - 1) : s[m] # sep
         IN  <<SubSeq(s, 1, i - 1)>> \o Split(SubSeq(s, i + 1, Len(s)), sep)

\* the elements of a sequence
Range(s) == {s[i] : i \in 1..Len(s)}

\* a map without one key (Go's delete(m, k))
Without(m, k) == [x \in DOMAIN m \ {k} |-> m[x]]

\* a map with one key set (Go's m[k] = v)
With(m, k, v) == [x \in DOMAIN m \cup {k} |-> IF x = k THEN v ELSE m[x]]

\* the empty map
NoEntries == [x \in {} |-> Idle]

-----------------------------------------------------------------------------
(* integrity/integrity.go: file and directory-tree checksums.              *)
(*                                                                         *)
(* A directory tree is a set of regular files [rel, data]: rel is the      *)
(* sequence of name components below the root, data the file's bytes.      *)
(* SHA-256 is modelled as collision-free: a digest is the tagged input.    *)

\* characters in byte order, for sort.Strings
AsciiOrder ==
    <<"-", ".", "/", "0", "1", "2", "3", "4", "5", "6", "7", "8", "9", "\\",
      "^", "a", "b", "c", "d", "e", "f", "g", "h", "i", "j", "k", "l", "m",
      "n", "o", "p", "q", "r", "s", "t", "u", "v", "w", "x", "y", "z", "~">>

Ord(c) == CHOOSE i \in 1..Len(AsciiOrder) : AsciiOrder[i] = c

\* Go's s < t on strings: byte-wise lexicographic
RECURSIVE StrLess(_, _)
StrLess(s, t) ==
    IF t = <<>> THEN FALSE
    ELSE IF s = <<>> THEN TRUE
    ELSE IF s[1] = t[1] THEN StrLess(Tail(s), Tail(t))
    ELSE Ord(s[1]) < Ord(t[1])

\* insertion into a sorted sequence of strings
RECURSIVE Insert(_, _)
Insert(x, sorted) ==
    IF sorted = <<>> THEN <<x>>
    ELSE IF StrLess(sorted[1], x) THEN <<sorted[1]>> \o Insert(x, Tail(sorted))
    ELSE <<x>> \o sorted

\* sort.Strings
RECURSIVE SortStrings(_)
SortStrings(xs) ==
    IF xs = <<>> THEN <<>> ELSE Insert(xs[1], SortStrings(Tail(xs)))

\* crypto/sha256 over a byte stream, as lower-case hex text
Sha256Hex(stream) == <<"sha256", stream>>

\* the name of the version-control metadata directory
DotGit == <<".", "g", "i", "t">>

\* CalculateFileChecksum: the digest of the file's raw bytes
CalculateFileChecksum(data) == Sha256Hex(data)

\* integrity.contains
contains(slice, item) == \E i \in 1..Len(slice) : slice[i] = item

\* filepath.Base of a clean path: its last element
Base(path, sep) == LET parts == Split(path, sep) IN parts[Len(parts)]

\* filepath.Rel(dirPath, filePath) for a file that filepath.Walk found under dirPath
Rel(dirPath, filePath, sep) == TrimPrefix(filePath, dirPath \o <<sep>>)

\* the path filepath.Walk reports for file f of the tree rooted at dirPath
WalkPath(dirPath, f, sep) == dirPath \o <<sep>> \o Join(f.rel, <<sep>>)

\* the file of the tree that filepath.Walk reported as path
FileAt(dirPath, tree, sep, path) ==
    CHOOSE f \in tree : WalkPath(dirPath, f, sep) = path

\* the walk callback's filter (integrity.go:39-46): TRUE when path is kept
Kept(path, sep) ==
    /\ Base(path, sep) # DotGit
    /\ ~contains(Split(path, sep), DotGit)

\* the files slice after the walk, in enumeration order
Walked(dirPath, order, sep) ==
    LET paths == [i \in 1..Len(order) |-> WalkPath(dirPath, order[i], sep)]
    IN  SelectSeq(paths, LAMBDA p : Kept(p, sep))

\* what is fed to the tree hash for the sorted file list: per file the
\* relative path, NUL, the file's hex digest, NUL. No path holds a NUL and the
\* hex digest has a fixed width, so the byte stream is exactly the sequence
\* of (relative path, file digest) pairs
RECURSIVE TreeStream(_, _, _, _)
TreeStream(dirPath, tree, sep, files) ==
    IF files = <<>> THEN <<>>
    ELSE <<<<Rel(dirPath, files[1], sep),
             CalculateFileChecksum(FileAt(dirPath, tree, sep, files[1]).data)>>>>
         \o TreeStream(dirPath, tree, sep, Tail(files))

\* a mutant of CalculateDirectoryChecksum: the file list is not sorted
ChecksumUnsorted(dirPath, tree, sep, order) ==
    Sha256Hex(TreeStream(dirPath, tree, sep, Walked(dirPath, order, sep)))

\* CalculateDirectoryChecksum(dirPath) of the tree at dirPath, on a host whose
\* path separator is sep, when the walk enumerates the files in `order`
CalculateDirectoryChecksum(dirPath, tree, sep, order) ==
    Sha256Hex(TreeStream(dirPath, tree, sep,
                         SortStrings(Walked(dirPath, order, sep))))

\* all enumeration orders of a set of files
RECURSIVE Orders(_)
Orders(files) ==
    IF files = {} THEN {<<>>}
    ELSE UNION {{<<f>> \o o : o \in Orders(files \ {f})} : f \in files}

\* one enumeration order (filepath.Walk's own)
SomeOrder(files) == CHOOSE o \in Orders(files) : TRUE

-----------------------------------------------------------------------------
(* Specification SpecSum: CalculateDirectoryChecksum applied to bounded    *)
(* trees, at bounded locations, on hosts with either path separator.       *)

pipeVars == <<entries, index, dirs, remote, last, lastOn>>

PipeOff ==
    /\ entries = NoEntries /\ index = NoEntries /\ dirs = NoEntries
    /\ remote = Idle /\ last = Idle /\ lastOn = NoEntries

\* most plain files in a generated tree
MaxPlainFiles == 2

Na == <<"a">>
Nb == <<"b">>
Nd == <<"d">>
GitX == <<".", "g", "i", "t", "x">>

\* relative paths of ordinary files
PlainRels == {<<Na>>, <<Nd, Nb>>, <<GitX>>}

\* relative paths with a component named exactly .git
GitRels == {<<DotGit, Na>>, <<Nd, DotGit, Na>>, <<Nd, DotGit>>}

FileData == {<<"x">>, <<"y">>}

\* absolute locations of a tree root, as components
Roots == {<<<<"t">>>>, <<<<"u">>, <<"w">>>>, <<DotGit, <<"w">>>>}

\* the host's path separators
Separators == {"/", "\\"}

\* the root directory's path as the host spells it
RootPath(root, sep) == <<sep>> \o Join(root, <<sep>>)

\* no path of the tree is both a file and a directory, none is listed twice
WellFormed(tree) ==
    \A f, g \in tree :
        f # g => /\ f.rel # g.rel
                 /\ ~(Len(f.rel) < Len(g.rel) /\ SubSeq(g.rel, 1, Len(f.rel)) = f.rel)

PlainTrees ==
    {t \in SUBSET [rel : PlainRels, data : {<<"x">>}] :
        Cardinality(t) <= MaxPlainFiles /\ WellFormed(t)}

SumInit ==
    /\ PipeOff /\ rs = Idle /\ inst = Idle /\ sync = Idle
    /\ \E t \in PlainTrees, r \in Roots, s \in Separators :
          sum = [op |-> "sum", tree |-> t, root |-> r, sep |-> s,
                 have |-> FALSE, digest |-> Sha256Hex(<<>>),
                 base |-> [set |-> FALSE, tree |-> t, root |-> r, sep |-> s,
                           digest |-> Sha256Hex(<<>>)]]

\* a call of CalculateDirectoryChecksum on the current tree
SumChecksum ==
    /\ \E order \in Orders(sum.tree) :
          LET d == CalculateDirectoryChecksum(RootPath(sum.root, sum.sep),
                                              sum.tree, sum.sep, order)
          IN  sum' = [sum EXCEPT !.have = TRUE, !.digest = d,
                        !.base = IF sum.base.set THEN @
                                 ELSE [set |-> TRUE, tree |-> sum.tree,
                                       root |-> sum.root, sep |-> sum.sep,
                                       digest |-> d]]
    /\ UNCHANGED <<pipeVars, rs, inst, sync>>

\* a file appears under a directory named .git, at any depth
SumInjectGit ==
    /\ sum.base.set
    /\ \E f \in [rel : GitRels, data : {<<"y">>}] :
          /\ f \notin sum.tree
          /\ WellFormed(sum.tree \cup {f})
          /\ \A g \in sum.tree : g.rel \notin GitRels
          /\ sum' = [sum EXCEPT !.tree = @ \cup {f}, !.have = FALSE]
    /\ UNCHANGED <<pipeVars, rs, inst, sync>>

\* a file under version-control metadata is removed
SumRemoveGit ==
    /\ sum.base.set
    /\ \E f \in sum.tree :
          /\ f.rel \in GitRels
          /\ sum' = [sum EXCEPT !.tree = @ \ {f}, !.have = FALSE]
    /\ UNCHANGED <<pipeVars, rs, inst, sync>>

\* the content of an ordinary file changes
SumEdit ==
    /\ sum.base.set
    /\ \E f \in sum.tree, d \in FileData :
          /\ f.rel \in PlainRels /\ d # f.data
          /\ \A g \in sum.tree : g.rel \in PlainRels => g.data = <<"x">>
          /\ sum' = [sum EXCEPT !.tree = (@ \ {f}) \cup {[rel |-> f.rel, data |-> d]},
                                !.have = FALSE]
    /\ UNCHANGED <<pipeVars, rs, inst, sync>>

\* the tree is moved to another absolute location
SumMove ==
    /\ sum.base.set
    /\ \E r \in Roots \ {sum.root} : sum' = [sum EXCEPT !.root = r, !.have = FALSE]
    /\ UNCHANGED <<pipeVars, rs, inst, sync>>

\* the tree is copied to a host with the other path separator
SumRehost ==
    /\ sum.base.set
    /\ \E s \in Separators \ {sum.sep} : sum' = [sum EXCEPT !.sep = s, !.have = FALSE]
    /\ UNCHANGED <<pipeVars, rs, inst, sync>>

SumNext ==
    \/ SumChecksum
    \/ SumInjectGit
    \/ SumRemoveGit
    \/ SumEdit
    \/ SumMove
    \/ SumRehost

SpecSum == SumInit /\ [][SumNext]_vars

\* the (relative path, content) pairs of a tree once every path with a
\* component named exactly .git is removed
FilteredPairs(tree) == {f \in tree : ~contains(f.rel, DotGit)}

\* the location has no component named .git
CleanRoot(root) == ~contains(root, DotGit)

\* C7: the tree checksum is invariant to the enumeration order and to files
\* under a .git component at any depth: two trees with the same filtered
\* (relative path, content) pairs, hashed on the same host at the same
\* location or at two locations outside any .git directory, have the same digest.
InvC7 ==
    (/\ sum.have
     /\ sum.base.set
     /\ sum.sep = sum.base.sep
     /\ (sum.root = sum.base.root \/ (CleanRoot(sum.root) /\ CleanRoot(sum.base.root)))
     /\ FilteredPairs(sum.tree) = FilteredPairs(sum.base.tree))
    => sum.digest = sum.base.digest

\* a tree of two ordinary files with an injected nested .git file has been hashed
WitC7 ==
    /\ sum.have
    /\ sum.base.set
    /\ sum.sep = sum.base.sep
    /\ sum.root = sum.base.root
    /\ Cardinality(FilteredPairs(sum.tree)) = 2
    /\ \E f \in sum.tree : f.rel = <<Nd, DotGit, Na>>
    /\ \A f \in sum.base.tree : ~contains(f.rel, DotGit)
    /\ FilteredPairs(sum.tree) = FilteredPairs(sum.base.tree)
    /\ sum.digest = sum.base.digest

\* C8: two trees with identical (relative path, content) pairs have identical
\* digests whatever the host's path separator and whatever the absolute
\* location of the root, a location under a .git component included.
InvC8 ==
    (sum.have /\ sum.base.set /\ sum.tree = sum.base.tree)
    => sum.digest = sum.base.digest

-----------------------------------------------------------------------------
(* semver/semver.go: versions, constraints and the best match.             *)

Digits == <<"0", "1", "2", "3", "4", "5", "6", "7", "8", "9">>

IsDigit(c) == \E i \in 1..10 : Digits[i] = c

DigitVal(c) == (CHOOSE i \in 1..10 : Digits[i] = c) - 1

\* the character class [0-9A-Za-z\-\.] of semverRegex
IsLabelChar(c) ==
    c \in {"0", "1", "2", "3", "4", "5", "6", "7", "8", "9", "-", ".",
           "a", "b", "c", "d", "e", "f", "g", "h", "i", "j", "k", "l", "m",
           "n", "o", "p", "q", "r", "s", "t", "u", "v", "w", "x", "y", "z",
           "A", "B", "C", "D", "E", "F", "G", "H", "I", "J", "K", "L", "M",
           "N", "O", "P", "Q", "R", "S", "T", "U", "V", "W", "X", "Y", "Z"}

\* strconv.Atoi of a run of digits
RECURSIVE Atoi(_)
Atoi(ds) ==
    IF ds = <<>> THEN 0 ELSE Atoi(SubSeq(ds, 1, Len(ds) - 1)) * 10 + DigitVal(ds[Len(ds)])

\* fmt.Sprintf("%d", n) for n >= 0
RECURSIVE Itoa(_)
Itoa(n) ==
    IF n < 10 THEN <<Digits[n + 1]>> ELSE Itoa(n \div 10) \o <<Digits[(n % 10) + 1]>>

\* the length of the longest prefix of s made of digits: (\d+)
RECURSIVE DigitSpan(_)
DigitSpan(s) ==
    IF s = <<>> \/ ~IsDigit(s[1]) THEN 0 ELSE 1 + DigitSpan(Tail(s))

\* the length of the longest prefix of s made of label characters
RECURSIVE LabelSpan(_)
LabelSpan(s) ==
    IF s = <<>> \/ ~IsLabelChar(s[1]) THEN 0 ELSE 1 + LabelSpan(Tail(s))

NoVersion == [Major |-> 0, Minor |-> 0, Patch |-> 0, Prerelease |-> <<>>, Build |-> <<>>]

\* the optional tail of semverRegex: (?:-(label))?(?:\+(label))?$
ParseLabels(rest) ==
    LET pre  == IF rest # <<>> /\ rest[1] = "-"
                THEN SubSeq(rest, 2, 1 + LabelSpan(Tail(rest)))
                ELSE <<>>
        r2   == IF rest # <<>> /\ rest[1] = "-" /\ pre # <<>>
                THEN SubSeq(rest, Len(pre) + 2, Len(rest))
                ELSE rest
        bld  == IF r2 # <<>> /\ r2[1] = "+"
                THEN SubSeq(r2, 2, 1 + LabelSpan(Tail(r2)))
                ELSE <<>>
        r3   == IF r2 # <<>> /\ r2[1] = "+" /\ bld # <<>>
                THEN SubSeq(r2, Len(bld) + 2, Len(r2))
                ELSE r2
    IN  [ok |-> r3 = <<>>, pre |-> pre, build |-> bld]

\* what follows a leading run of digits
AfterNumber(s) == SubSeq(s, DigitSpan(s) + 1, Len(s))

\* what follows the first character
AfterDot(s) == IF s = <<>> THEN <<>> ELSE Tail(s)

\* s starts with (\d+)\.
HasNumberDot(s) ==
    DigitSpan(s) > 0 /\ AfterNumber(s) # <<>> /\ AfterNumber(s)[1] = "."

\* strconv.Atoi of the leading run of digits
NumberOf(s) == Atoi(SubSeq(s, 1, DigitSpan(s)))

\* ParseVersion: semverRegex, then strconv.Atoi of the three numbers
ParseVersion(text) ==
    LET s0 == IF text # <<>> /\ text[1] = "v" THEN Tail(text) ELSE text
        s1 == AfterDot(AfterNumber(s0))
        s2 == AfterDot(AfterNumber(s1))
        labels == ParseLabels(AfterNumber(s2))
    IN  IF HasNumberDot(s0) /\ HasNumberDot(s1) /\ DigitSpan(s2) > 0 /\ labels.ok
        THEN [ok |-> TRUE,
              v |-> [Major |-> NumberOf(s0), Minor |-> NumberOf(s1), Patch |-> NumberOf(s2),
                     Prerelease |-> labels.pre, Build |-> labels.build]]
        ELSE [ok |-> FALSE, v |-> NoVersion]

\* a mutant of Version.String: the prerelease label is left out
VersionStringBare(v) ==
    Itoa(v.Major) \o <<".">> \o Itoa(v.Minor) \o <<".">> \o Itoa(v.Patch)
    \o (IF v.Build # <<>> THEN <<"+">> \o v.Build ELSE <<>>)

\* Version.String
VersionString(v) ==
    Itoa(v.Major) \o <<".">> \o Itoa(v.Minor) \o <<".">> \o Itoa(v.Patch)
    \o (IF v.Prerelease # <<>> THEN <<"-">> \o v.Prerelease ELSE <<>>)
    \o (IF v.Build # <<>> THEN <<"+">> \o v.Build ELSE <<>>)

\* a mutant of Version.Compare: on an equal triple the version without a
\* prerelease label is the smaller one
CompareUnlabelledLess(v, other) ==
    IF v.Major # other.Major THEN (IF v.Major < other.Major THEN -1 ELSE 1)
    ELSE IF v.Minor # other.Minor THEN (IF v.Minor < other.Minor THEN -1 ELSE 1)
    ELSE IF v.Patch # other.Patch THEN (IF v.Patch < other.Patch THEN -1 ELSE 1)
    ELSE IF v.Prerelease = <<>> /\ other.Prerelease # <<>> THEN -1
    ELSE IF v.Prerelease # <<>> /\ other.Prerelease = <<>> THEN 1
    ELSE IF v.Prerelease # other.Prerelease
         THEN (IF StrLess(v.Prerelease, other.Prerelease) THEN -1 ELSE 1)
    ELSE 0

\* Version.Compare
Compare(v, other) ==
    IF v.Major # other.Major THEN (IF v.Major < other.Major THEN -1 ELSE 1)
    ELSE IF v.Minor # other.Minor THEN (IF v.Minor < other.Minor THEN -1 ELSE 1)
    ELSE IF v.Patch # other.Patch THEN (IF v.Patch < other.Patch THEN -1 ELSE 1)
    ELSE IF v.Prerelease = <<>> /\ other.Prerelease # <<>> THEN 1
    ELSE IF v.Prerelease # <<>> /\ other.Prerelease = <<>> THEN -1
    ELSE IF v.Prerelease # other.Prerelease
         THEN (IF StrLess(v.Prerelease, other.Prerelease) THEN -1 ELSE 1)
    ELSE 0

\* strings.TrimSpace, for spaces
RECURSIVE TrimSpace(_)
TrimSpace(s) ==
    IF s # <<>> /\ s[1] = " " THEN TrimSpace(Tail(s))
    ELSE IF s # <<>> /\ s[Len(s)] = " " THEN TrimSpace(SubSeq(s, 1, Len(s) - 1))
    ELSE s

\* the operators ParseConstraint tries, in its order
ConstraintOperators == <<<<"^">>, <<"~">>, <<">", "=">>, <<"<", "=">>, <<">">>, <<"<">>, <<"=">>>>

\* ParseConstraint: the first operator that prefixes the text, else implicit "="
ParseConstraint(text) ==
    LET c == TrimSpace(text)
        hits == {i \in 1..Len(ConstraintOperators) : HasPrefix(c, ConstraintOperators[i])}
        i == IF hits = {} THEN 0 ELSE CHOOSE j \in hits : \A m \in hits : j <= m
        op == IF i = 0 THEN <<"=">> ELSE ConstraintOperators[i]
        pv == ParseVersion(IF i = 0 THEN c ELSE SubSeq(c, Len(op) + 1, Len(c)))
    IN  [ok |-> pv.ok, Operator |-> op, Version |-> pv.v]

\* a mutant of Constraint.Satisfies: the caret also demands the same minor
SatisfiesSameMinor(c, version) ==
    CASE c.Operator \in {<<"^">>, <<"~">>} ->
             IF version.Major # c.Version.Major \/ version.Minor # c.Version.Minor
             THEN FALSE
             ELSE Compare(version, c.Version) >= 0
      [] c.Operator = <<">", "=">> -> Compare(version, c.Version) >= 0
      [] c.Operator = <<"<", "=">> -> Compare(version, c.Version) <= 0
      [] c.Operator = <<">">> -> Compare(version, c.Version) > 0
      [] c.Operator = <<"<">> -> Compare(version, c.Version) < 0
      [] c.Operator = <<"=">> -> Compare(version, c.Version) = 0
      [] OTHER -> FALSE

\* Constraint.Satisfies
Satisfies(c, version) ==
    CASE c.Operator = <<"^">> ->
             IF version.Major # c.Version.Major THEN FALSE
             ELSE Compare(version, c.Version) >= 0
      [] c.Operator = <<"~">> ->
             IF version.Major # c.Version.Major \/ version.Minor # c.Version.Minor
             THEN FALSE
             ELSE Compare(version, c.Version) >= 0
      [] c.Operator = <<">", "=">> -> Compare(version, c.Version) >= 0
      [] c.Operator = <<"<", "=">> -> Compare(version, c.Version) <= 0
      [] c.Operator = <<">">> -> Compare(version, c.Version) > 0
      [] c.Operator = <<"<">> -> Compare(version, c.Version) < 0
      [] c.Operator = <<"=">> -> Compare(version, c.Version) = 0
      [] OTHER -> FALSE

\* the loop of FindBestMatch over the candidates after the first
RECURSIVE BestOf(_, _)
BestOf(best, candidates) ==
    IF candidates = <<>> THEN best
    ELSE BestOf(IF Compare(candidates[1], best) > 0 THEN candidates[1] ELSE best,
                Tail(candidates))

\* a mutant of FindBestMatch: the first satisfying candidate is returned
FindFirstMatch(constraint, versions) ==
    LET candidates == SelectSeq(versions, LAMBDA v : Satisfies(constraint, v))
    IN  IF Len(candidates) = 0 THEN [ok |-> FALSE, v |-> NoVersion]
        ELSE [ok |-> TRUE, v |-> candidates[1]]

\* FindBestMatch
FindBestMatch(constraint, versions) ==
    LET candidates == SelectSeq(versions, LAMBDA v : Satisfies(constraint, v))
    IN  IF Len(candidates) = 0 THEN [ok |-> FALSE, v |-> NoVersion]
        ELSE [ok |-> TRUE, v |-> BestOf(candidates[1], Tail(candidates))]

-----------------------------------------------------------------------------
(* package github (cli/update.go:77-365): locators and the remote.         *)
(*                                                                         *)
(* The remote repository is [tags, release, main, master]: the tag names   *)
(* in the order the API lists them, the tag of the latest release (empty:  *)
(* no release, the API answers 404) and the tip commits of the branches    *)
(* main and master (empty: no such branch).                                *)

\* the first index at which sub occurs in s, 0 when it does not
IndexOf(s, sub) ==
    LET hits == {i \in 1..(Len(s) - Len(sub) + 1) : SubSeq(s, i, i + Len(sub) - 1) = sub}
    IN  IF hits = {} THEN 0 ELSE CHOOSE i \in hits : \A j \in hits : i <= j

\* strings.Trim(s, "/")
RECURSIVE TrimSlashes(_)
TrimSlashes(s) ==
    IF s # <<>> /\ s[1] = "/" THEN TrimSlashes(Tail(s))
    ELSE IF s # <<>> /\ s[Len(s)] = "/" THEN TrimSlashes(SubSeq(s, 1, Len(s) - 1))
    ELSE s

NoRepo == [ok |-> FALSE, owner |-> <<>>, repo |-> <<>>]

\* url.Parse of scheme://host/path: the host and the path
UrlParse(u) ==
    LET i == IndexOf(u, <<":", "/", "/">>)
        after == IF i = 0 THEN <<>> ELSE SubSeq(u, i + 3, Len(u))
        j == IndexOf(after, <<"/">>)
    IN  [Host |-> IF i = 0 THEN <<>>
                  ELSE IF j = 0 THEN after ELSE SubSeq(after, 1, j - 1),
         Path |-> IF i = 0 \/ j = 0 THEN <<>> ELSE SubSeq(after, j, Len(after))]

\* the SSH form: git@github\.com:([^/]+)/(.+?)(?:\.git)?$
ParseSSH(repoURL) ==
    LET i == IndexOf(repoURL, <<"g", "i", "t", "@", "g", "i", "t", "h", "u", "b", ".", "c", "o", "m", ":">>)
        after == IF i = 0 THEN <<>> ELSE SubSeq(repoURL, i + 15, Len(repoURL))
        j == IndexOf(after, <<"/">>)
        owner == IF j = 0 THEN <<>> ELSE SubSeq(after, 1, j - 1)
        rest == IF j = 0 THEN <<>> ELSE SubSeq(after, j + 1, Len(after))
        repo == IF HasSuffix(rest, <<".", "g", "i", "t">>) /\ Len(rest) > 4
                THEN SubSeq(rest, 1, Len(rest) - 4) ELSE rest
    IN  IF i = 0 \/ owner = <<>> \/ rest = <<>> THEN NoRepo
        ELSE [ok |-> TRUE, owner |-> owner, repo |-> repo]

\* ParseRepoURL
ParseRepoURL(repoURL) ==
    IF ~Contains(repoURL, <<"/">>) THEN NoRepo
    ELSE IF ~Contains(repoURL, <<":", "/", "/">>) /\ ~Contains(repoURL, <<"@">>)
    THEN LET parts == Split(repoURL, "/")
         IN  IF Len(parts) # 2 THEN NoRepo
             ELSE [ok |-> TRUE, owner |-> parts[1], repo |-> parts[2]]
    ELSE IF HasPrefix(repoURL, <<"h", "t", "t", "p">>)
    THEN LET u == UrlParse(repoURL)
             parts == Split(TrimSlashes(u.Path), "/")
         IN  IF u.Host # <<"g", "i", "t", "h", "u", "b", ".", "c", "o", "m">> THEN NoRepo
             ELSE IF Len(parts) < 2 THEN NoRepo
             ELSE [ok |-> TRUE, owner |-> parts[1],
                   repo |-> IF HasSuffix(parts[2], <<".", "g", "i", "t">>)
                            THEN SubSeq(parts[2], 1, Len(parts[2]) - 4)
                            ELSE parts[2]]
    ELSE IF Contains(repoURL, <<"@">>) THEN ParseSSH(repoURL)
    ELSE NoRepo

\* Client.GetLatestRelease: the latest release's tag, an error on 404 or
\* when the request fails
GetLatestRelease(rem, err) ==
    IF err \/ rem.release = <<>> THEN [ok |-> FALSE, TagName |-> <<>>]
    ELSE [ok |-> TRUE, TagName |-> rem.release]

\* Client.GetTags
GetTags(rem, err) ==
    IF err THEN [ok |-> FALSE, tags |-> <<>>] ELSE [ok |-> TRUE, tags |-> rem.tags]

\* the versions among the tags, in the tags' order (the loop of GetAvailableVersions)
RECURSIVE ParsedVersions(_)
ParsedVersions(tags) ==
    IF tags = <<>> THEN <<>>
    ELSE (IF ParseVersion(tags[1]).ok THEN <<ParseVersion(tags[1]).v>> ELSE <<>>)
         \o ParsedVersions(Tail(tags))

\* Client.GetAvailableVersions
GetAvailableVersions(rem, err) ==
    LET got == GetTags(rem, err)
    IN  IF ~got.ok THEN [ok |-> FALSE, versions |-> <<>>]
        ELSE [ok |-> TRUE, versions |-> ParsedVersions(got.tags)]

-----------------------------------------------------------------------------
(* package fetch (main.go:54-315): reference resolution and retrieval.     *)
(*                                                                         *)
(* A dependency is [Git, Version, Branch, Tag, Rev, UseLatestCommit].      *)
(* env holds the outcome of every external call a fetch can make. Each     *)
(* function returns, next to its results, the external calls it made.      *)

Call(kind, arg) == [kind |-> kind, arg |-> arg]

\* the output of `git ls-remote --tags <url> <tag>`: the refs the pattern matches
LsRemoteTags(rem, tag) ==
    LET hits == SelectSeq(rem.tags, LAMBDA t : t = tag)
    IN  Join([i \in 1..Len(hits) |-> <<"r", "e", "f", "s", "/", "t", "a", "g", "s", "/">> \o hits[i]], <<"\n">>)

\* checkTagExists
checkTagExists(rem, tag, err) ==
    IF err THEN [ok |-> FALSE, exists |-> FALSE]
    ELSE [ok |-> TRUE, exists |-> Contains(LsRemoteTags(rem, tag), tag)]

\* getLatestReleaseTag
getLatestReleaseTag(rem, err) ==
    LET release == GetLatestRelease(rem, err)
    IN  IF ~release.ok THEN [ok |-> FALSE, tag |-> <<>>]
        ELSE [ok |-> TRUE, tag |-> release.TagName]

\* a mutant of getLatestCommitSHA: master is asked before main
TipMasterFirst(rem, env) ==
    IF ~env.masterErr /\ rem.master # <<>>
    THEN [ok |-> TRUE, sha |-> rem.master, calls |-> <<Call("tip", <<"m", "a", "s", "t", "e", "r">>)>>]
    ELSE IF env.mainErr \/ rem.main = <<>>
    THEN [ok |-> FALSE, sha |-> <<>>,
          calls |-> <<Call("tip", <<"m", "a", "s", "t", "e", "r">>), Call("tip", <<"m", "a", "i", "n">>)>>]
    ELSE [ok |-> TRUE, sha |-> rem.main,
          calls |-> <<Call("tip", <<"m", "a", "s", "t", "e", "r">>), Call("tip", <<"m", "a", "i", "n">>)>>]

\* getLatestCommitSHA: the tip of main, else the tip of master
getLatestCommitSHA(rem, env) ==
    IF ~env.mainErr /\ rem.main # <<>>
    THEN [ok |-> TRUE, sha |-> rem.main, calls |-> <<Call("tip", <<"m", "a", "i", "n">>)>>]
    ELSE IF env.masterErr \/ rem.master = <<>>
    THEN [ok |-> FALSE, sha |-> <<>>,
          calls |-> <<Call("tip", <<"m", "a", "i", "n">>), Call("tip", <<"m", "a", "s", "t", "e", "r">>)>>]
    ELSE [ok |-> TRUE, sha |-> rem.master,
          calls |-> <<Call("tip", <<"m", "a", "i", "n">>), Call("tip", <<"m", "a", "s", "t", "e", "r">>)>>]

NoRef(calls) ==
    [ok |-> FALSE, ref |-> <<>>, version |-> <<>>, commit |-> <<>>, calls |-> calls]

Resolved(ref, version, commit, calls) ==
    [ok |-> TRUE, ref |-> ref, version |-> version, commit |-> commit, calls |-> calls]

\* determineRefWithValidation, lines 223-243: a concrete version constraint
ProbeTags(rem, dep, env) ==
    LET version == TrimPrefix(TrimPrefix(TrimPrefix(dep.Version, <<"^">>), <<"~">>), <<"=">>)
        possibleTags == <<version, <<"v">> \o version>>
        p1 == checkTagExists(rem, possibleTags[1], env.probeErr1)
        p2 == checkTagExists(rem, possibleTags[2], env.probeErr2)
        c1 == <<Call("probe", possibleTags[1])>>
        c2 == c1 \o <<Call("probe", possibleTags[2])>>
    IN  IF p1.ok /\ p1.exists THEN Resolved(possibleTags[1], dep.Version, <<>>, c1)
        ELSE IF p2.ok /\ p2.exists THEN Resolved(possibleTags[2], dep.Version, <<>>, c2)
        ELSE NoRef(c2)

\* determineRefWithValidation, lines 246-257: no selector of any kind
LatestOrTip(rem, env) ==
    LET latest == getLatestReleaseTag(rem, env.relErr)
        tip == getLatestCommitSHA(rem, env)
        c1 == <<Call("release", <<>>)>>
    IN  IF latest.ok /\ latest.tag # <<>>
        THEN Resolved(latest.tag, latest.tag, <<>>, c1)
        ELSE IF ~tip.ok THEN NoRef(c1 \o tip.calls)
        ELSE Resolved(tip.sha, tip.sha, tip.sha, c1 \o tip.calls)

\* a mutant of determineRefWithValidation: the version constraint is
\* considered before the tag and the branch
RefVersionFirst(rem, dep, env) ==
    IF dep.Rev # <<>> THEN Resolved(dep.Rev, dep.Rev, dep.Rev, <<>>)
    ELSE IF dep.Version # <<>> /\ dep.Version # <<"l", "a", "t", "e", "s", "t">> THEN ProbeTags(rem, dep, env)
    ELSE IF dep.Tag # <<>> THEN Resolved(dep.Tag, dep.Tag, <<>>, <<>>)
    ELSE IF dep.Branch # <<>> THEN Resolved(dep.Branch, dep.Branch, <<>>, <<>>)
    ELSE LatestOrTip(rem, env)

\* determineRefWithValidation
determineRefWithValidation(rem, dep, env) ==
    IF dep.Rev # <<>> THEN Resolved(dep.Rev, dep.Rev, dep.Rev, <<>>)
    ELSE IF dep.Tag # <<>> THEN Resolved(dep.Tag, dep.Tag, <<>>, <<>>)
    ELSE IF dep.Branch # <<>> THEN Resolved(dep.Branch, dep.Branch, <<>>, <<>>)
    ELSE IF dep.UseLatestCommit
    THEN LET tip == getLatestCommitSHA(rem, env)
         IN  IF ~tip.ok THEN NoRef(tip.calls)
             ELSE Resolved(tip.sha, tip.sha, tip.sha, tip.calls)
    ELSE IF dep.Version # <<>>
    THEN IF dep.Version = <<"l", "a", "t", "e", "s", "t">>
         THEN LET latest == getLatestReleaseTag(rem, env.relErr)
                  c == <<Call("release", <<>>)>>
              IN  IF ~latest.ok THEN NoRef(c)
                  ELSE Resolved(latest.tag, latest.tag, <<>>, c)
         ELSE ProbeTags(rem, dep, env)
    ELSE LatestOrTip(rem, env)

\* a line written through package logger, by its level
Logged(level, what) == [level |-> level, what |-> what]

\* the lines determineRefWithValidation writes (main.go:204-252), in order:
\* none under a revision, tag or branch
determineRefLog(rem, dep, env) ==
    LET tip == getLatestCommitSHA(rem, env)
        latest == getLatestReleaseTag(rem, env.relErr)
    IN  IF dep.Rev # <<>> \/ dep.Tag # <<>> \/ dep.Branch # <<>> THEN <<>>
        ELSE IF dep.UseLatestCommit
        THEN <<Logged("info", "fetching latest commit")>>
             \o (IF tip.ok THEN <<Logged("debug", "latest commit")>> ELSE <<>>)
        ELSE IF dep.Version = <<"l", "a", "t", "e", "s", "t">>
        THEN (IF latest.ok THEN <<Logged("debug", "latest release")>> ELSE <<>>)
        ELSE IF dep.Version # <<>>
        THEN (IF env.probeErr1 THEN <<Logged("debug", "failed to check tag")>> ELSE <<>>)
             \o (IF env.probeErr2 /\ Len(ProbeTags(rem, dep, env).calls) = 2
                 THEN <<Logged("debug", "failed to check tag")>> ELSE <<>>)
        ELSE IF latest.ok /\ latest.tag # <<>> THEN <<Logged("debug", "latest release")>>
        ELSE <<Logged("debug", "no releases found")>>

-----------------------------------------------------------------------------
(* Specification SpecResolve: determineRefWithValidation applied to every  *)
(* combination of selectors, against bounded remotes, under every outcome  *)
(* of the remote calls.                                                    *)

ShaMain == <<"a", "b", "c", "1", "2", "3", "0", "0", "0", "0", "0", "0", "0", "0", "0", "0", "0", "0", "0", "0", "0", "0", "0", "0", "0", "0", "0", "0", "0", "0", "0", "0", "0", "0", "0", "0", "0", "0", "0", "1">>
ShaMaster == <<"d", "e", "f", "4", "5", "6", "0", "0", "0", "0", "0", "0", "0", "0", "0", "0", "0", "0", "0", "0", "0", "0", "0", "0", "0", "0", "0", "0", "0", "0", "0", "0", "0", "0", "0", "0", "0", "0", "0", "2">>

Dep(git, version, branch, tag, rev, ulc) ==
    [Git |-> git, Version |-> version, Branch |-> branch, Tag |-> tag,
     Rev |-> rev, UseLatestCommit |-> ulc]

OwnerRepo == <<"o", "w", "n", "e", "r", "/", "r", "e", "p", "o">>

\* every combination of selector fields
SelectorDeps ==
    {Dep(OwnerRepo, v, b, t, r, u) :
        v \in {<<>>, <<"l", "a", "t", "e", "s", "t">>, <<"^", "1", ".", "0", ".", "0">>, <<"^", "2", ".", "0", ".", "0">>},
        b \in {<<>>, <<"d", "e", "v">>},
        t \in {<<>>, <<"v", "1", ".", "0", ".", "0">>},
        r \in {<<>>, <<"a", "b", "c", "1", "2", "3">>},
        u \in BOOLEAN}

TagLists ==
    {<<>>,
     <<<<"1", ".", "0", ".", "0">>, <<"1", ".", "5", ".", "0">>, <<"v", "2", ".", "0", ".", "0">>>>,
     <<<<"v", "1", ".", "0", ".", "0">>, <<"v", "2", ".", "0", ".", "0">>>>,
     <<<<"1", ".", "0", ".", "0">>, <<"1", ".", "1", ".", "0">>, <<"1", ".", "2", ".", "0">>>>,
     <<<<"v", "1", ".", "0", ".", "0">>, <<"1", ".", "0", ".", "0">>, <<"2", ".", "0", ".", "0">>>>}

Remotes ==
    [tags : TagLists, release : {<<>>, <<"v", "2", ".", "0", ".", "0">>},
     main : {<<>>, ShaMain}, master : {<<>>, ShaMaster}]

\* the outcomes of the remote calls that the dependency's fields can lead to
ResolveEnvs(dep) ==
    [relErr : IF dep.Version \in {<<>>, <<"l", "a", "t", "e", "s", "t">>} THEN BOOLEAN ELSE {FALSE},
     probeErr1 : IF dep.Version \notin {<<>>, <<"l", "a", "t", "e", "s", "t">>} THEN BOOLEAN ELSE {FALSE},
     probeErr2 : IF dep.Version \notin {<<>>, <<"l", "a", "t", "e", "s", "t">>} THEN BOOLEAN ELSE {FALSE},
     mainErr : IF dep.UseLatestCommit \/ dep.Version = <<>> THEN BOOLEAN ELSE {FALSE},
     masterErr : IF dep.UseLatestCommit \/ dep.Version = <<>> THEN BOOLEAN ELSE {FALSE}]

NoEnv ==
    [relErr |-> FALSE, probeErr1 |-> FALSE, probeErr2 |-> FALSE,
     mainErr |-> FALSE, masterErr |-> FALSE]

RsInit ==
    /\ PipeOff /\ inst = Idle /\ sync = Idle /\ sum = Idle
    /\ \E d \in SelectorDeps, r \in Remotes :
          rs = [op |-> "resolve", dep |-> d, rem |-> r, done |-> FALSE,
                env |-> NoEnv, out |-> NoRef(<<>>), log |-> <<>>]

\* one call of determineRefWithValidation
RsResolve ==
    /\ ~rs.done
    /\ \E env \in ResolveEnvs(rs.dep) :
          rs' = [rs EXCEPT !.done = TRUE, !.env = env,
                           !.out = determineRefWithValidation(rs.rem, rs.dep, env),
                           !.log = determineRefLog(rs.rem, rs.dep, env)]
    /\ UNCHANGED <<pipeVars, inst, sum, sync>>

RsNext == RsResolve

SpecResolve == RsInit /\ [][RsNext]_vars

\* the kinds of the external calls made
CallKinds(calls) == {calls[i].kind : i \in 1..Len(calls)}

\* C4: exactly one rule applies, by the precedence revision, tag, branch,
\* use-latest-commit, version constraint, no selector. Under the first three
\* the reference and the version are the declared value verbatim and no
\* remote call is made; a lower rule's remote calls are never made when a
\* higher rule applies (tag v1.0.0 with constraint ^2.0.0 gives v1.0.0 twice).
InvC4 ==
    rs.done =>
        LET d == rs.dep
            o == rs.out
            k == CallKinds(o.calls)
        IN  /\ d.Rev # <<>> =>
                  o.ok /\ o.ref = d.Rev /\ o.version = d.Rev /\ o.calls = <<>>
            /\ (d.Rev = <<>> /\ d.Tag # <<>>) =>
                  o.ok /\ o.ref = d.Tag /\ o.version = d.Tag /\ o.calls = <<>>
            /\ (d.Rev = <<>> /\ d.Tag = <<>> /\ d.Branch # <<>>) =>
                  o.ok /\ o.ref = d.Branch /\ o.version = d.Branch /\ o.calls = <<>>
            /\ (d.Rev = <<>> /\ d.Tag = <<>> /\ d.Branch = <<>>) =>
                  /\ d.UseLatestCommit => k = {"tip"}
                  /\ (~d.UseLatestCommit /\ d.Version = <<"l", "a", "t", "e", "s", "t">>) => k = {"release"}
                  /\ (~d.UseLatestCommit /\ d.Version \notin {<<>>, <<"l", "a", "t", "e", "s", "t">>}) =>
                        k = {"probe"}
                  /\ (~d.UseLatestCommit /\ d.Version = <<>>) =>
                        "release" \in k /\ "probe" \notin k
            /\ (d.Tag = <<"v", "1", ".", "0", ".", "0">> /\ d.Version = <<"^", "2", ".", "0", ".", "0">> /\ d.Rev = <<>>) =>
                  o.ref = <<"v", "1", ".", "0", ".", "0">> /\ o.version = <<"v", "1", ".", "0", ".", "0">>

\* the tag v1.0.0 was resolved for a dependency that also has constraint ^2.0.0,
\* against a remote that has a tag 2.0.0 spelled v2.0.0
WitC4 ==
    /\ rs.done
    /\ rs.dep.Tag = <<"v", "1", ".", "0", ".", "0">> /\ rs.dep.Version = <<"^", "2", ".", "0", ".", "0">> /\ rs.dep.Rev = <<>>
    /\ Len(rs.rem.tags) > 0
    /\ rs.out.ok /\ rs.out.ref = <<"v", "1", ".", "0", ".", "0">>

\* the dependency has no selector of any kind
NoSelector(d) ==
    d.Rev = <<>> /\ d.Tag = <<>> /\ d.Branch = <<>> /\ d.Version = <<>>
    /\ ~d.UseLatestCommit

\* C6: with no selector, the latest release tag is reference and version; when
\* no release exists the tip of main is reference, version and commit id, and
\* the tip of master only when main yields no commit.
InvC6 ==
    (rs.done /\ NoSelector(rs.dep)) =>
        LET o == rs.out
            e == rs.env
            r == rs.rem
            mainTip == IF e.mainErr THEN <<>> ELSE r.main
            masterTip == IF e.masterErr THEN <<>> ELSE r.master
        IN  /\ (r.release # <<>> /\ ~e.relErr) =>
                  o.ok /\ o.ref = r.release /\ o.version = r.release
                  /\ CallKinds(o.calls) = {"release"}
            /\ (r.release = <<>> /\ mainTip # <<>>) =>
                  /\ o.ok /\ o.ref = mainTip /\ o.version = mainTip /\ o.commit = mainTip
                  /\ Call("tip", <<"m", "a", "s", "t", "e", "r">>) \notin Range(o.calls)
            /\ (r.release = <<>> /\ mainTip = <<>> /\ masterTip # <<>>) =>
                  o.ok /\ o.ref = masterTip /\ o.version = masterTip
                  /\ o.commit = masterTip
            /\ (r.release = <<>> /\ mainTip = <<>> /\ masterTip = <<>>) => ~o.ok

\* no selector, no release, both branches have a tip: main's tip was taken
WitC6 ==
    /\ rs.done /\ NoSelector(rs.dep)
    /\ rs.rem.release = <<>> /\ rs.rem.main = ShaMain /\ rs.rem.master = ShaMaster
    /\ ~rs.env.mainErr
    /\ rs.out.ok /\ rs.out.ref = ShaMain /\ rs.out.version = ShaMain
    /\ rs.out.commit = ShaMain

\* the remote calls of the finished resolution that were made and failed
FailedCalls ==
    LET made == Range(rs.out.calls)
        version == TrimPrefix(TrimPrefix(TrimPrefix(rs.dep.Version, <<"^">>), <<"~">>), <<"=">>)
    IN  {c \in made : c.kind = "release" /\ rs.env.relErr}
        \cup {c \in made : c = Call("probe", version) /\ rs.env.probeErr1}
        \cup {c \in made : c = Call("probe", <<"v">> \o version) /\ rs.env.probeErr2}
        \cup {c \in made : c = Call("tip", <<"m", "a", "i", "n">>) /\ rs.env.mainErr}
        \cup {c \in made : c = Call("tip", <<"m", "a", "s", "t", "e", "r">>) /\ rs.env.masterErr}

\* C21: a resolution that took a revision, tag or branch of a dependency
\* that also declares a version constraint has written a warning.
InvC21 ==
    (/\ rs.done /\ rs.out.ok
     /\ rs.dep.Version # <<>>
     /\ (rs.dep.Rev # <<>> \/ rs.dep.Tag # <<>> \/ rs.dep.Branch # <<>>)) =>
        \E i \in 1..Len(rs.log) : rs.log[i].level = "warn"

\* rule 6 applies: a concrete version constraint and no selector above it
ConstraintOnly(d) ==
    /\ d.Rev = <<>> /\ d.Tag = <<>> /\ d.Branch = <<>> /\ ~d.UseLatestCommit
    /\ d.Version \notin {<<>>, <<"l", "a", "t", "e", "s", "t">>}

\* the constraint's text less one leading ^, ~ or =
Bare(text) ==
    IF text # <<>> /\ text[1] \in {"^", "~", "="} THEN Tail(text) ELSE text

\* what rule 6 is to give for the bare version B against the remote's tags:
\* a reference is the first of B and v+B that exists, v+B is not probed when
\* the probe of B found it, and without a reference either neither exists
\* or a probe failed
ProbedRight(B) ==
    LET has(t) == t \in Range(rs.rem.tags)
        o == rs.out
        both == <<Call("probe", B), Call("probe", <<"v">> \o B)>>
    IN  /\ o.calls \in {<<Call("probe", B)>>, both}
        /\ o.ok => /\ has(o.ref) /\ o.version = rs.dep.Version
                   /\ o.ref = (IF has(B) THEN B ELSE <<"v">> \o B)
        /\ ~o.ok => \/ ~has(B) /\ ~has(<<"v">> \o B)
                    \/ rs.env.probeErr1 \/ rs.env.probeErr2
        /\ (has(B) /\ ~rs.env.probeErr1) => o.calls = <<Call("probe", B)>>
        /\ (~has(B) /\ ~has(<<"v">> \o B)) => (~o.ok /\ o.calls = both)
        /\ (rs.dep.Version = <<"^", "1", ".", "0", ".", "0">>
            /\ rs.rem.tags = <<<<"1", ".", "0", ".", "0">>, <<"1", ".", "1", ".", "0">>, <<"1", ".", "2", ".", "0">>>>
            /\ o.ok) =>
               o.ref = <<"1", ".", "0", ".", "0">>

\* C22: under rule 6 the bare version B is probed, then v+B unless B exists;
\* the first of the two that exists on the remote is the reference, and the
\* resolution fails when neither exists; ^1.0.0 against tags 1.0.0, 1.1.0,
\* 1.2.0 gives 1.0.0.
InvC22 ==
    (rs.done /\ ConstraintOnly(rs.dep)) => ProbedRight(Bare(rs.dep.Version))

\* C22, the part that holds: the same when no probe fails
InvC22Answered ==
    (rs.done /\ ConstraintOnly(rs.dep) /\ ~rs.env.probeErr1 /\ ~rs.env.probeErr2) =>
        ProbedRight(Bare(rs.dep.Version))

\* C12: a resolution in which a release query, a tag probe or a branch query
\* failed returns an error: a failed probe is not read as "no such tag" and a
\* failed release query does not fall through to the branch tips.
InvC12 == (rs.done /\ FailedCalls # {}) => ~rs.out.ok

-----------------------------------------------------------------------------
(* cache/cache.go: the fetch cache. Cache.entries is `entries`; index.json *)
(* is `index`, a map from key to the JSON object of an Entry.              *)

\* Cache.cacheDir: <home>/.yuki/cache
CacheDir == <<"/", "h", "/", ".", "y", "u", "k", "i", "/", "c", "a", "c", "h", "e">>

\* the host's path separator in the pipeline
Sep == "/"

Entry(path, checksum, version, commit) ==
    [Path |-> path, Checksum |-> checksum, Version |-> version, CommitSHA |-> commit]

\* Entry{}, and the absence of a FetchResult
NoEntry == Entry(<<>>, <<>>, <<>>, <<>>)

\* json.Marshal of an Entry: the struct tags name the first three fields
Marshal(e) ==
    [path |-> e.Path, checksum |-> e.Checksum, version |-> e.Version,
     CommitSHA |-> e.CommitSHA]

\* json.Unmarshal into an Entry
Unmarshal(o) == Entry(o.path, o.checksum, o.version, o.CommitSHA)

\* os.Stat(path) succeeds: the directory exists, or one beneath it does
Exists(fs, path) ==
    /\ path # <<>>
    /\ \/ path \in DOMAIN fs
       \/ \E q \in DOMAIN fs : HasPrefix(q, path \o <<Sep>>)

\* os.RemoveAll(path)
RemoveAll(fs, path) ==
    [q \in {p \in DOMAIN fs : p # path /\ ~HasPrefix(p, path \o <<Sep>>)} |-> fs[q]]

\* Cache.save: the whole mapping is written to index.json; a failure of
\* MkdirAll or WriteFile is logged at debug level and the index stays as it was
save(ents, idx, writeOk) ==
    IF writeOk THEN [k \in DOMAIN ents |-> Marshal(ents[k])] ELSE idx

\* Cache.load: the mapping read from index.json, empty when it cannot be read
load(idx, readOk) ==
    IF readOk THEN [k \in DOMAIN idx |-> Unmarshal(idx[k])] ELSE NoEntries

\* cache.New
New(idx, readOk) == load(idx, readOk)

\* a mutant of Cache.Get: a stale entry is reported absent but not evicted
GetNoEvict(ents, idx, fs, key, writeOk) ==
    IF key \notin DOMAIN ents \/ ~Exists(fs, ents[key].Path)
    THEN [found |-> FALSE, entry |-> NoEntry, entries |-> ents, index |-> idx]
    ELSE [found |-> TRUE, entry |-> ents[key], entries |-> ents, index |-> idx]

\* Cache.Get
Get(ents, idx, fs, key, writeOk) ==
    IF key \notin DOMAIN ents
    THEN [found |-> FALSE, entry |-> NoEntry, entries |-> ents, index |-> idx]
    ELSE IF ~Exists(fs, ents[key].Path)
    THEN [found |-> FALSE, entry |-> NoEntry, entries |-> Without(ents, key),
          index |-> save(Without(ents, key), idx, writeOk)]
    ELSE [found |-> TRUE, entry |-> ents[key], entries |-> ents, index |-> idx]

\* Cache.Set
Set(ents, idx, key, entry, writeOk) ==
    [entries |-> With(ents, key, entry),
     index |-> save(With(ents, key, entry), idx, writeOk)]

\* Cache.Delete
Delete(ents, idx, key, writeOk) ==
    [entries |-> Without(ents, key), index |-> save(Without(ents, key), idx, writeOk)]

\* the directories at or beneath path
Beneath(fs, path) == {q \in DOMAIN fs : q = path \/ HasPrefix(q, path \o <<Sep>>)}

\* Cache.Clear: the mapping is emptied first, then os.RemoveAll(cacheDir)
\* removes index.json and every tree beneath the cache directory, then the
\* directory is created again. A RemoveAll that fails has removed what it
\* could: env.keepIndex and env.kept say what it left behind.
Clear(ents, idx, fs, env) ==
    IF env.rmErr
    THEN [ok |-> FALSE, entries |-> NoEntries,
          index |-> IF env.keepIndex THEN idx ELSE NoEntries,
          dirs |-> [q \in (DOMAIN fs \ Beneath(fs, CacheDir)) \cup env.kept |-> fs[q]]]
    ELSE [ok |-> ~env.mkdirErr, entries |-> NoEntries, index |-> NoEntries,
          dirs |-> RemoveAll(fs, CacheDir)]

-----------------------------------------------------------------------------
(* package fetch (main.go:54-315): retrieval and FetchDependency.          *)

HexChars ==
    {"0", "1", "2", "3", "4", "5", "6", "7", "8", "9",
     "a", "b", "c", "d", "e", "f", "A", "B", "C", "D", "E", "F"}

\* utils.IsHexString
IsHexString(s) == \A i \in 1..Len(s) : s[i] \in HexChars

\* the length of a full commit id (main.go:150)
ShaLen == 40

\* generateCacheKey
GenerateCacheKey(owner, repo, dep) ==
    Join(<<owner, repo>>
         \o (IF dep.Rev # <<>> THEN <<<<"r", "e", "v">>, dep.Rev>>
             ELSE IF dep.Tag # <<>> THEN <<<<"t", "a", "g">>, dep.Tag>>
             ELSE IF dep.Branch # <<>> THEN <<<<"b", "r", "a", "n", "c", "h">>, dep.Branch>>
             ELSE IF dep.Version # <<>> THEN <<<<"v", "e", "r", "s", "i", "o", "n">>, dep.Version>>
             ELSE <<<<"l", "a", "t", "e", "s", "t">>>>),
         <<"-">>)

\* filepath.Join(cacheDir, "repos", owner, repo, ref)
TargetDir(owner, repo, ref) ==
    Join(<<CacheDir, <<"r", "e", "p", "o", "s">>, owner, repo, ref>>, <<Sep>>)

\* the tracked files of the remote repository at a reference
RemoteTree(ref) == {[rel |-> <<Na>>, data |-> ref]}

\* the tracked files of the remote's default branch
DefaultTree == {[rel |-> <<Na>>, data |-> <<"H", "E", "A", "D">>]}

\* the version-control metadata a clone leaves in the working copy
GitMeta == {[rel |-> <<DotGit, <<"H", "E", "A", "D">>>>, data |-> <<"r", "e", "f">>]}

\* os.RemoveAll(filepath.Join(targetDir, ".git"))
StripGit(tree) == {f \in tree : f.rel[1] # DotGit}

\* cloneRepository, lines 186-187: the result of the removal is not looked at
Stripped(tree, env) == IF env.stripErr THEN tree ELSE StripGit(tree)

Cloned(ok, path, fs, calls) == [ok |-> ok, path |-> path, dirs |-> fs, calls |-> calls]

\* cloneRepository, lines 150-160 and 170-179: full clone, then checkout of ref
FullClone(fs, targetDir, ref, env, calls) ==
    LET c1 == calls \o <<Call("clone", ref)>>
        c2 == c1 \o <<Call("checkout", ref)>>
    IN  IF env.fullErr THEN Cloned(FALSE, <<>>, fs, c1)
        ELSE IF env.checkoutErr
        THEN Cloned(FALSE, <<>>, With(fs, targetDir, DefaultTree \cup GitMeta), c2)
        ELSE Cloned(TRUE, targetDir, With(fs, targetDir, Stripped(RemoteTree(ref) \cup GitMeta, env)), c2)

\* a mutant of cloneRepository: any failure of the shallow clone leads to
\* the full clone
cloneAnyFallback(fs, owner, repo, ref, env) ==
    LET targetDir == TargetDir(owner, repo, ref)
        cleaned == RemoveAll(fs, targetDir)
        shallow == <<Call("shallow", ref)>>
    IN  IF env.rmErr THEN Cloned(FALSE, <<>>, fs, <<>>)
        ELSE IF env.mkdirErr THEN Cloned(FALSE, <<>>, cleaned, <<>>)
        ELSE IF Len(ref) = ShaLen /\ IsHexString(ref)
        THEN FullClone(cleaned, targetDir, ref, env, <<>>)
        ELSE IF env.shallow = "ok"
        THEN Cloned(TRUE, targetDir,
                    With(cleaned, targetDir, Stripped(RemoteTree(ref) \cup GitMeta, env)), shallow)
        ELSE FullClone(cleaned, targetDir, ref, env, shallow)

\* cloneRepository
cloneRepository(fs, owner, repo, ref, env) ==
    LET targetDir == TargetDir(owner, repo, ref)
        cleaned == RemoveAll(fs, targetDir)
        shallow == <<Call("shallow", ref)>>
    IN  IF env.rmErr THEN Cloned(FALSE, <<>>, fs, <<>>)
        ELSE IF env.mkdirErr THEN Cloned(FALSE, <<>>, cleaned, <<>>)
        ELSE IF Len(ref) = ShaLen /\ IsHexString(ref)
        THEN FullClone(cleaned, targetDir, ref, env, <<>>)
        ELSE IF env.shallow = "ok"
        THEN Cloned(TRUE, targetDir,
                    With(cleaned, targetDir, Stripped(RemoteTree(ref) \cup GitMeta, env)), shallow)
        ELSE IF env.shallow = "notfound"
        THEN FullClone(cleaned, targetDir, ref, env, shallow)
        ELSE Cloned(FALSE, <<>>, cleaned, shallow)

Fetched(ok, hit, stage, key, res, ents, idx, fs, calls) ==
    [ok |-> ok, hit |-> hit, stage |-> stage, key |-> key, res |-> res,
     entries |-> ents, index |-> idx, dirs |-> fs, calls |-> calls]

\* FetchDependency, lines 301-314: the entry is stored and the result returned
FetchStored(g, key, env, r, cl, result) ==
    LET s == Set(g.entries, g.index, key, result, env.setSaveOk)
    IN  Fetched(TRUE, FALSE, "done", key, result, s.entries, s.index, cl.dirs,
                r.calls \o cl.calls)

\* FetchDependency, lines 291-299: the retrieved tree is checksummed
FetchCloned(g, key, env, r, cl) ==
    IF ~cl.ok
    THEN Fetched(FALSE, FALSE, "clone", key, NoEntry, g.entries, g.index, cl.dirs,
                 r.calls \o cl.calls)
    ELSE IF env.sumErr
    THEN Fetched(FALSE, FALSE, "checksum", key, NoEntry, g.entries, g.index, cl.dirs,
                 r.calls \o cl.calls)
    ELSE FetchStored(g, key, env, r, cl,
             Entry(cl.path,
                   CalculateDirectoryChecksum(cl.path, cl.dirs[cl.path], Sep,
                                              SomeOrder(cl.dirs[cl.path])),
                   r.version, r.commit))

\* FetchDependency, lines 286-289: the resolved reference is retrieved
FetchResolved(g, fs, pr, key, env, r) ==
    IF ~r.ok
    THEN Fetched(FALSE, FALSE, "resolve", key, NoEntry, g.entries, g.index, fs, r.calls)
    ELSE FetchCloned(g, key, env, r, cloneRepository(fs, pr.owner, pr.repo, r.ref, env))

\* FetchDependency, lines 280-314: the cache missed
FetchMiss(g, fs, rem, pr, key, dep, env) ==
    FetchResolved(g, fs, pr, key, env, determineRefWithValidation(rem, dep, env))

\* a mutant of FetchLookedUp: an entry the cache holds is ignored
FetchIgnoreHit(g, fs, rem, pr, key, dep, env) ==
    FetchMiss([g EXCEPT !.found = FALSE, !.entry = NoEntry], fs, rem, pr, key, dep, env)

\* FetchDependency, lines 270-278: g is what Cache.Get answered
FetchLookedUp(g, fs, rem, pr, key, dep, env) ==
    IF g.found
    THEN Fetched(TRUE, TRUE, "hit", key, g.entry, g.entries, g.index, fs, <<>>)
    ELSE FetchMiss(g, fs, rem, pr, key, dep, env)

\* FetchDependency, lines 268-270: the cache is asked for the key
FetchKeyed(ents, idx, fs, rem, pr, key, dep, env) ==
    FetchLookedUp(Get(ents, idx, fs, key, env.evictSaveOk), fs, rem, pr, key, dep, env)

\* FetchDependency, lines 263-268: pr is the parsed locator
FetchParsed(ents, idx, fs, rem, pr, dep, env) ==
    IF ~pr.ok
    THEN Fetched(FALSE, FALSE, "locator", <<>>, NoEntry, ents, idx, fs, <<>>)
    ELSE FetchKeyed(ents, idx, fs, rem, pr, GenerateCacheKey(pr.owner, pr.repo, dep), dep, env)

\* FetchDependency
FetchDependency(ents, idx, fs, rem, dep, env) ==
    FetchParsed(ents, idx, fs, rem, ParseRepoURL(dep.Git), dep, env)

-----------------------------------------------------------------------------
(* Specification Spec: one Cache and the fetcher over a file system and a  *)
(* remote. `lastOn` remembers, per key, what this Cache instance last did  *)
(* with it; `last` is the outcome of the latest operation.                 *)

\* a dependency with no selector
Unpinned == Dep(OwnerRepo, <<>>, <<>>, <<>>, <<>>, FALSE)

\* the dependencies the fetcher is asked for: the unpinned one and one whose
\* locator cannot be parsed
FetchDeps == {Unpinned, Dep(<<"n", "o", "w", "h", "e", "r", "e">>, <<>>, <<>>, <<>>, <<>>, FALSE)}

\* the remote the fetcher runs against
FetchRemote ==
    [tags |-> <<<<"1", ".", "0", ".", "0">>, <<"1", ".", "5", ".", "0">>, <<"v", "2", ".", "0", ".", "0">>>>, release |-> <<"v", "2", ".", "0", ".", "0">>,
     main |-> ShaMain, master |-> <<>>]

\* the outcomes of the local steps of a retrieval
CloneEnvs ==
    [rmErr : BOOLEAN, mkdirErr : BOOLEAN, shallow : {"ok", "notfound", "other"},
     fullErr : BOOLEAN, checkoutErr : BOOLEAN, stripErr : BOOLEAN]

\* the outcomes of the writes of index.json
SaveEnvs == [evictSaveOk : BOOLEAN, setSaveOk : BOOLEAN]

\* the remote calls of one resolution that fail
RemoteFaults(r) ==
    {f \in {"relErr", "probeErr1", "probeErr2", "mainErr", "masterErr"} : r[f]}

\* the local steps of one retrieval that fail
LocalFaults(c, s) ==
    {f \in {"rmErr", "mkdirErr", "fullErr", "checkoutErr", "stripErr"} : c[f]}
    \cup {f \in {"shallow"} : c.shallow = "other"}
    \cup {f \in {"sumErr"} : s}

AtMostOne(S) == \A x, y \in S : x = y

\* the outcomes of every fallible step of one FetchDependency call in which
\* at most one remote call of the resolution and at most one local step fail
FetchEnvs(dep) ==
    {[relErr |-> x[1].relErr, probeErr1 |-> x[1].probeErr1, probeErr2 |-> x[1].probeErr2,
      mainErr |-> x[1].mainErr, masterErr |-> x[1].masterErr,
      rmErr |-> x[2].rmErr, mkdirErr |-> x[2].mkdirErr, shallow |-> x[2].shallow,
      fullErr |-> x[2].fullErr, checkoutErr |-> x[2].checkoutErr,
      stripErr |-> x[2].stripErr,
      sumErr |-> x[3], evictSaveOk |-> x[4].evictSaveOk, setSaveOk |-> x[4].setSaveOk] :
        x \in {y \in ResolveEnvs(dep) \X CloneEnvs \X BOOLEAN \X SaveEnvs :
                  AtMostOne(RemoteFaults(y[1])) /\ AtMostOne(LocalFaults(y[2], y[3]))}}

KeyOf(dep) ==
    LET pr == ParseRepoURL(dep.Git) IN GenerateCacheKey(pr.owner, pr.repo, dep)

\* the key a caller of the cache uses directly: the unpinned dependency's
ApiKeys == {KeyOf(Unpinned)}

\* the entry a caller of the cache stores directly
ApiEntries ==
    {Entry(TargetDir(<<"o", "w", "n", "e", "r">>, <<"r", "e", "p", "o">>, FetchRemote.release), Sha256Hex(<<>>),
           <<"1", ".", "0", ".", "0">>, ShaMain)}

Seen(kind, entry) == [kind |-> kind, entry |-> entry]

Outcome(op, key, ok, hit, stage, res, calls) ==
    [op |-> op, key |-> key, ok |-> ok, hit |-> hit, stage |-> stage, res |-> res,
     calls |-> calls]

Quiet(op, key) == Outcome(op, key, TRUE, FALSE, "", NoEntry, <<>>)

\* what this Cache instance last did with key
Prior(key) == IF key \in DOMAIN lastOn THEN lastOn[key] ELSE Seen("none", NoEntry)

\* lastOn after a Get of key reported absent
Missed(key) ==
    With(lastOn, key,
         Seen("absent", IF key \in DOMAIN entries THEN entries[key] ELSE Prior(key).entry))

resolveOff == rs = Idle /\ inst = Idle /\ sync = Idle /\ sum = Idle

Init ==
    /\ resolveOff
    /\ entries = NoEntries /\ index = NoEntries /\ dirs = NoEntries
    /\ lastOn = NoEntries
    /\ remote = FetchRemote
    /\ last = Quiet("init", <<>>)

\* a caller's Cache.Get(key)
DoGet ==
    \E key \in ApiKeys, writeOk \in BOOLEAN :
        \E g \in {Get(entries, index, dirs, key, writeOk)} :
            /\ entries' = g.entries
            /\ index' = g.index
            /\ lastOn' = IF g.found THEN lastOn ELSE Missed(key)
            /\ last' = Outcome("get", key, TRUE, g.found, "", g.entry, <<>>)
            /\ UNCHANGED <<dirs, remote, rs, inst, sum, sync>>

\* a caller's Cache.Set(key, entry)
DoSet ==
    \E key \in ApiKeys, entry \in ApiEntries, writeOk \in BOOLEAN :
        \E s \in {Set(entries, index, key, entry, writeOk)} :
            /\ entries' = s.entries
            /\ index' = s.index
            /\ lastOn' = With(lastOn, key, Seen("set", entry))
            /\ last' = Quiet("set", key)
            /\ UNCHANGED <<dirs, remote, rs, inst, sum, sync>>

\* a caller's Cache.Delete(key)
DoDelete ==
    \E key \in DOMAIN entries, writeOk \in BOOLEAN :
        \E s \in {Delete(entries, index, key, writeOk)} :
            /\ entries' = s.entries
            /\ index' = s.index
            /\ lastOn' = Without(lastOn, key)
            /\ last' = Quiet("delete", key)
            /\ UNCHANGED <<dirs, remote, rs, inst, sum, sync>>

\* the outcomes of the steps of one Cache.Clear
ClearEnvs(fs) ==
    {[rmErr |-> FALSE, keepIndex |-> FALSE, kept |-> {}, mkdirErr |-> m] : m \in BOOLEAN}
    \cup {[rmErr |-> TRUE, keepIndex |-> k, kept |-> K, mkdirErr |-> FALSE] :
              k \in BOOLEAN, K \in SUBSET Beneath(fs, CacheDir)}

\* a caller's Cache.Clear()
DoClear ==
    \E env \in ClearEnvs(dirs) :
        \E c \in {Clear(entries, index, dirs, env)} :
            /\ entries' = c.entries
            /\ index' = c.index
            /\ dirs' = c.dirs
            /\ lastOn' = NoEntries
            /\ last' = Outcome("clear", <<>>, c.ok, FALSE, "", NoEntry, <<>>)
            /\ UNCHANGED <<remote, rs, inst, sum, sync>>

\* a new process constructs its Cache from the index file
DoNew ==
    \E readOk \in BOOLEAN :
        /\ entries' = New(index, readOk)
        /\ lastOn' = NoEntries
        /\ last' = Quiet("new", <<>>)
        /\ UNCHANGED <<index, dirs, remote, rs, inst, sum, sync>>

\* one call of FetchDependency
DoFetch ==
    \E dep \in FetchDeps : \E env \in FetchEnvs(dep) :
        \E f \in {FetchDependency(entries, index, dirs, remote, dep, env)} :
            /\ entries' = f.entries
            /\ index' = f.index
            /\ dirs' = f.dirs
            /\ lastOn' = IF f.stage \in {"locator", "hit"} THEN lastOn
                         ELSE IF f.ok THEN With(lastOn, f.key, Seen("set", f.res))
                         ELSE Missed(f.key)
            /\ last' = Outcome("fetch", f.key, f.ok, f.hit, f.stage, f.res, f.calls)
            /\ UNCHANGED <<remote, rs, inst, sum, sync>>

\* something outside the program removes the directory an entry names
EnvRemoveDir ==
    \E key \in DOMAIN entries :
        LET path == entries[key].Path
        IN  /\ Exists(dirs, path)
            /\ dirs' = RemoveAll(dirs, path)
            /\ last' = Quiet("rmdir", key)
            /\ UNCHANGED <<entries, index, lastOn, remote, rs, inst, sum, sync>>

\* something outside the program creates the directory an evicted entry named
EnvCreateDir ==
    \E key \in DOMAIN lastOn :
        LET path == lastOn[key].entry.Path
        IN  /\ lastOn[key].kind = "absent"
            /\ path # <<>>
            /\ ~Exists(dirs, path)
            /\ dirs' = With(dirs, path, DefaultTree)
            /\ last' = Quiet("mkdir", key)
            /\ UNCHANGED <<entries, index, lastOn, remote, rs, inst, sum, sync>>

Next ==
    \/ DoGet
    \/ DoSet
    \/ DoDelete
    \/ DoClear
    \/ DoNew
    \/ DoFetch
    \/ EnvRemoveDir
    \/ EnvCreateDir

Spec == Init /\ [][Next]_vars

\* the persisted form of a mapping
MarshalIndex(ents) == [k \in DOMAIN ents |-> Marshal(ents[k])]

\* C1: after a failed FetchDependency call no result is returned, Cache.Set
\* was not reached, and neither the in-memory mapping nor the persisted index
\* holds an entry for the dependency's cache key.
InvC1 ==
    (last.op = "fetch" /\ ~last.ok) =>
        /\ last.res = NoEntry
        /\ last.stage \in {"locator", "resolve", "clone", "checksum"}
        /\ last.key # <<>> => (last.key \notin DOMAIN entries /\ last.key \notin DOMAIN index)

\* C2: a Get(k) by the instance that last Set(k, e) returns e while e.Path
\* exists; once e.Path is gone it returns absent and removes k; and every
\* later Get(k) with no Set(k, _) in between returns absent, whatever the
\* directories hold by then.
PropC2 ==
    [][last'.op = "get" =>
         LET k == last'.key
             p == Prior(k)
         IN  /\ (p.kind = "set" /\ Exists(dirs, p.entry.Path)) =>
                    (last'.hit /\ last'.res = p.entry)
             /\ (p.kind = "set" /\ ~Exists(dirs, p.entry.Path)) =>
                    (~last'.hit /\ last'.res = NoEntry /\ k \notin DOMAIN entries')
             /\ p.kind = "absent" => (~last'.hit /\ k \notin DOMAIN entries')]_vars

\* a Get reported absent although the directory of the entry it had evicted
\* exists again
WitC2 ==
    /\ last.op = "get" /\ ~last.hit
    /\ Prior(last.key).kind = "absent"
    /\ Exists(dirs, Prior(last.key).entry.Path)

\* C3: a FetchDependency call made while the cache holds an entry for the key
\* and the entry's path exists returns the entry's fields, makes no remote
\* call and no clone, and changes neither the mapping, the index nor the
\* directories.
PropC3 ==
    [][(/\ last'.op = "fetch"
        /\ last'.key \in DOMAIN entries
        /\ Exists(dirs, entries[last'.key].Path)) =>
           /\ last'.ok /\ last'.hit
           /\ last'.res = entries[last'.key]
           /\ last'.calls = <<>>
           /\ entries' = entries /\ index' = index /\ dirs' = dirs]_vars

\* a fetch was answered from the cache, with the commit id it had stored
WitC3 == last.op = "fetch" /\ last.hit /\ last.res.CommitSHA = ShaMain

\* C10: after every completed Set, Delete or evicting Get the persisted index
\* equals the in-memory mapping, so a Cache constructed next holds the same
\* mapping.
PropC10 ==
    [][(\/ last'.op \in {"set", "delete"}
        \/ (last'.op = "get" /\ entries' # entries)) =>
           /\ index' = MarshalIndex(entries')
           /\ New(index', TRUE) = entries']_vars

\* C11: after a Clear that succeeded the mapping is empty, a Cache constructed
\* next is empty, and no directory remains beneath the cache directory; a
\* Delete(k) removes k from the mapping and touches nothing else; and after a
\* Clear that returned an error the persisted index is still that of the
\* in-memory mapping.
PropC11 ==
    [][/\ (last'.op = "clear" /\ last'.ok) =>
              /\ entries' = NoEntries
              /\ \A readOk \in BOOLEAN : New(index', readOk) = NoEntries
              /\ Beneath(dirs', CacheDir) = {}
       /\ last'.op = "delete" =>
              /\ entries' = Without(entries, last'.key)
              /\ dirs' = dirs
       /\ (last'.op = "clear" /\ ~last'.ok) =>
              index' = MarshalIndex(entries')]_vars

\* C11, the part that holds: what a successful Clear and a Delete leave
PropC11Cleared ==
    [][/\ (last'.op = "clear" /\ last'.ok) =>
              /\ entries' = NoEntries
              /\ \A readOk \in BOOLEAN : New(index', readOk) = NoEntries
              /\ Beneath(dirs', CacheDir) = {}
       /\ last'.op = "delete" =>
              /\ entries' = Without(entries, last'.key)
              /\ dirs' = dirs]_vars

-----------------------------------------------------------------------------
(* package manifest, package resolver (unnamed/part_003) and runInstall    *)
(* (unnamed/part_000).                                                     *)
(*                                                                         *)
(* A manifest is [Dependencies, DevDeps, BuildDeps], each a map from name  *)
(* to dependency; a lock file is the sequence of its LockedPackages.       *)

Manifest(deps, dev, build) == [Dependencies |-> deps, DevDeps |-> dev, BuildDeps |-> build]

LockedPackage(name, version, source, checksum) ==
    [Name |-> name, Version |-> version, Source |-> source, Checksum |-> checksum]

\* Manifest.GetAllDependencies: later sections overwrite earlier ones
GetAllDependencies(m) ==
    [n \in DOMAIN m.Dependencies \cup DOMAIN m.DevDeps \cup DOMAIN m.BuildDeps |->
        IF n \in DOMAIN m.BuildDeps THEN m.BuildDeps[n]
        ELSE IF n \in DOMAIN m.DevDeps THEN m.DevDeps[n]
        ELSE m.Dependencies[n]]

Unresolved == [ok |-> FALSE, version |-> <<>>]

\* resolveVersion, lines 118-123: the best match as text
resolveBest(bestMatch) ==
    IF ~bestMatch.ok THEN Unresolved
    ELSE [ok |-> TRUE, version |-> VersionString(bestMatch.v)]

\* resolveVersion, lines 109-118: got is what GetAvailableVersions answered
resolveAmong(constraint, got) ==
    IF ~got.ok THEN Unresolved
    ELSE IF Len(got.versions) = 0 THEN Unresolved
    ELSE resolveBest(FindBestMatch(constraint, got.versions))

\* resolveVersion, lines 104-109: constraint is the parsed constraint
resolveConstraint(rem, env, constraint) ==
    IF ~constraint.ok THEN Unresolved
    ELSE resolveAmong(constraint, GetAvailableVersions(rem, env.apiTagsErr))

\* resolveVersion, lines 126-132: the latest release, else "main"
resolveLatest(release) ==
    IF release.ok THEN [ok |-> TRUE, version |-> release.TagName]
    ELSE [ok |-> TRUE, version |-> <<"m", "a", "i", "n">>]

\* Resolver.resolveVersion
resolveVersion(rem, dep, env) ==
    IF dep.Rev # <<>> THEN [ok |-> TRUE, version |-> dep.Rev]
    ELSE IF dep.Tag # <<>> THEN [ok |-> TRUE, version |-> dep.Tag]
    ELSE IF dep.Branch # <<>> THEN [ok |-> TRUE, version |-> dep.Branch]
    ELSE IF dep.Version # <<>>
    THEN resolveConstraint(rem, env, ParseConstraint(dep.Version))
    ELSE resolveLatest(GetLatestRelease(rem, env.apiRelErr))

\* resolveDependency, lines 79-87: the ResolvedDependency
ResolvedDependency(name, dep, rv) ==
    [ok |-> rv.ok, Name |-> name, Version |-> rv.version, Source |-> dep.Git]

\* Resolver.resolveDependency
resolveDependency(name, dep, rem, env) ==
    IF ~ParseRepoURL(dep.Git).ok
    THEN ResolvedDependency(name, dep, Unresolved)
    ELSE ResolvedDependency(name, dep, resolveVersion(rem, dep, env))

\* the keys of a map as a sequence, in some order
KeySeq(m) == SomeOrder(DOMAIN m)

\* Resolve, lines 48-59: the resolved dependencies sorted by name
Resolution(names, resolved) ==
    IF \E n \in DOMAIN resolved : ~resolved[n].ok
    THEN [ok |-> FALSE, Dependencies |-> <<>>]
    ELSE [ok |-> TRUE, Dependencies |-> [i \in 1..Len(names) |-> resolved[names[i]]]]

\* Resolve, lines 40-46: every dependency of the manifest resolved
ResolveAll(allDeps, rem, env) ==
    Resolution(SortStrings(KeySeq(allDeps)),
               [n \in DOMAIN allDeps |-> resolveDependency(n, allDeps[n], rem, env)])

\* Resolver.Resolve
Resolve(m, rem, env) == ResolveAll(GetAllDependencies(m), rem, env)

\* runInstall, lines 63-79: the manifest entry a resolved name is fetched with
ManifestDep(m, name) ==
    IF name \in DOMAIN m.Dependencies THEN m.Dependencies[name]
    ELSE IF name \in DOMAIN m.DevDeps THEN m.DevDeps[name]
    ELSE m.BuildDeps[name]

Installed(ok, st, calls) == [ok |-> ok, st |-> st, calls |-> calls]

RECURSIVE InstallEach(_, _, _, _, _, _)

\* runInstall, lines 86-99: vendor and lock the fetched dependency, report it
\* installed, then go on
InstallFetched(deps, m, st, rem, env, calls, manifestDep, result) ==
    LET fetched == [st EXCEPT !.entries = result.entries, !.index = result.index,
                              !.dirs = result.dirs]
        locked == [fetched EXCEPT
                     !.vendored = With(st.vendored, deps[1].Name, result.res.Path),
                     !.lock = Append(st.lock,
                                     LockedPackage(deps[1].Name, result.res.Version,
                                                   manifestDep.Git, result.res.Checksum))]
    IN  IF ~result.ok THEN Installed(FALSE, fetched, calls \o result.calls)
        ELSE IF env.vendorErr THEN Installed(FALSE, fetched, calls \o result.calls)
        ELSE InstallEach(Tail(deps), m, locked, rem, env,
                         calls \o result.calls \o <<Call("installed", deps[1].Name)>>)

\* runInstall, lines 61 and 82-85: the dependency is announced and fetched
\* with its manifest entry
InstallOne(deps, m, st, rem, env, calls, manifestDep) ==
    InstallFetched(deps, m, st, rem, env, calls \o <<Call("install", deps[1].Name)>>,
                   manifestDep,
                   FetchDependency(st.entries, st.index, st.dirs, rem, manifestDep, env))

\* runInstall, lines 60-99: fetch, vendor and lock each resolved dependency.
\* st is [entries, index, dirs, vendored, lock]; lock is the list being built
InstallEach(deps, m, st, rem, env, calls) ==
    IF deps = <<>> THEN Installed(TRUE, st, calls)
    ELSE InstallOne(deps, m, st, rem, env, calls, ManifestDep(m, deps[1].Name))

\* the outcome of runInstall: whether it succeeded, the step it returned at,
\* the world it leaves and what it called and logged
Ran(ok, at, w, calls) == [ok |-> ok, at |-> at, w |-> w, calls |-> calls]

\* a mutant of InstallFinish: a failed dependency leaves the packages locked
\* so far in the lock file
InstallFinishPartial(w, env, each) ==
    LET after == [w EXCEPT !.index = each.st.index, !.dirs = each.st.dirs,
                           !.vendored = each.st.vendored]
    IN  IF ~each.ok
        THEN Ran(FALSE, "dependency", [after EXCEPT !.lock = each.st.lock], each.calls)
        ELSE IF env.lockSaveErr THEN Ran(FALSE, "save", after, each.calls)
        ELSE IF env.genErr
        THEN Ran(FALSE, "generate", [after EXCEPT !.lock = each.st.lock], each.calls)
        ELSE Ran(TRUE, "done", [after EXCEPT !.lock = each.st.lock, !.generated = TRUE],
                 each.calls)

\* runInstall, lines 101-134: save the lock file and generate yuki.zig
InstallFinish(w, env, each) ==
    LET after == [w EXCEPT !.index = each.st.index, !.dirs = each.st.dirs,
                           !.vendored = each.st.vendored]
    IN  IF ~each.ok THEN Ran(FALSE, "dependency", after, each.calls)
        ELSE IF env.lockSaveErr THEN Ran(FALSE, "save", after, each.calls)
        ELSE IF env.genErr
        THEN Ran(FALSE, "generate", [after EXCEPT !.lock = each.st.lock], each.calls)
        ELSE Ran(TRUE, "done", [after EXCEPT !.lock = each.st.lock, !.generated = TRUE],
                 each.calls)

\* runInstall, lines 44-60: nothing to do, or a fetcher with a cache read
\* from the index file
InstallResolved(m, w, rem, env, resolution) ==
    IF ~resolution.ok THEN Ran(FALSE, "resolve", w, <<>>)
    ELSE IF Len(resolution.Dependencies) = 0 THEN Ran(TRUE, "empty", w, <<>>)
    ELSE InstallFinish(w, env,
             InstallEach(resolution.Dependencies, m,
                         [entries |-> New(w.index, env.readOk), index |-> w.index,
                          dirs |-> w.dirs, vendored |-> w.vendored, lock |-> <<>>],
                         rem, env, <<>>))

\* runInstall. w is the world before: the index file, the directories, the
\* project's vendored packages, its lock file and whether yuki.zig was written
runInstall(m, w, rem, env) == InstallResolved(m, w, rem, env, Resolve(m, rem, env))

-----------------------------------------------------------------------------
(* Specification SpecInstall: a project whose manifest is written and then *)
(* installed, again and again, against a remote; the cache, the vendored   *)
(* packages and the lock file outlive each run.                            *)

Caret1 == <<"^", "1", ".", "0", ".", "0">>

\* the manifest dependencies of the install runs
VersionDep(v) == Dep(OwnerRepo, v, <<>>, <<>>, <<>>, FALSE)

NameA == <<"a">>
NameB == <<"b">>

Only(name, dep) == [n \in {name} |-> dep]

\* the manifests a project goes through
Manifests ==
    {Manifest(Only(NameA, VersionDep(Caret1)), NoEntries, NoEntries),
     Manifest(Only(NameA, VersionDep(<<"^", "2", ".", "0", ".", "0">>)), NoEntries, NoEntries),
     Manifest(Only(NameA, VersionDep(<<"~", "3", ".", "0", ".", "0">>)), NoEntries, NoEntries),
     Manifest(Only(NameA, VersionDep(<<"l", "a", "t", "e", "s", "t">>)), NoEntries, NoEntries),
     Manifest(Only(NameB, VersionDep(<<>>)), NoEntries, NoEntries),
     Manifest(Only(NameB, VersionDep(Caret1)),
              Only(NameA, Dep(OwnerRepo, <<>>, <<>>, <<"v", "2", ".", "0", ".", "0">>, <<>>, FALSE)), NoEntries),
     Manifest(NoEntries, NoEntries, Only(NameA, Dep(<<"n", "o", "w", "h", "e", "r", "e">>, <<>>, <<>>, <<>>, <<>>, FALSE))),
     Manifest(NoEntries, NoEntries, NoEntries)}

\* the remotes a project installs from
InstallRemotes ==
    {[tags |-> <<<<"1", ".", "0", ".", "0">>, <<"1", ".", "5", ".", "0">>, <<"v", "2", ".", "0", ".", "0">>>>, release |-> <<>>,
      main |-> ShaMain, master |-> <<>>],
     [tags |-> <<<<"v", "2", ".", "1", ".", "0">>, <<"v", "1", ".", "0", ".", "0">>, <<"v", "1", ".", "2", ".", "0">>>>, release |-> <<"v", "2", ".", "1", ".", "0">>,
      main |-> <<>>, master |-> ShaMaster]}

\* the steps of an install run that can fail
InstallFaults ==
    {"relErr", "probeErr1", "probeErr2", "mainErr", "masterErr", "rmErr", "mkdirErr",
     "fullErr", "checkoutErr", "stripErr", "sumErr", "evictSave", "setSave", "read",
     "apiTagsErr", "apiRelErr", "vendorErr", "lockSaveErr", "genErr"}

\* the outcomes of the fallible steps when those in F fail and the shallow
\* clone ends as `shallow`
Course(shallow, F) ==
    [relErr |-> "relErr" \in F, probeErr1 |-> "probeErr1" \in F,
     probeErr2 |-> "probeErr2" \in F, mainErr |-> "mainErr" \in F,
     masterErr |-> "masterErr" \in F, rmErr |-> "rmErr" \in F,
     mkdirErr |-> "mkdirErr" \in F, shallow |-> shallow, fullErr |-> "fullErr" \in F,
     checkoutErr |-> "checkoutErr" \in F, stripErr |-> "stripErr" \in F,
     sumErr |-> "sumErr" \in F,
     evictSaveOk |-> "evictSave" \notin F, setSaveOk |-> "setSave" \notin F,
     readOk |-> "read" \notin F, apiTagsErr |-> "apiTagsErr" \in F,
     apiRelErr |-> "apiRelErr" \in F, vendorErr |-> "vendorErr" \in F,
     lockSaveErr |-> "lockSaveErr" \in F, genErr |-> "genErr" \in F]

\* the runs in which at most one step fails
InstallEnvs ==
    {Course(s, F) : s \in {"ok", "notfound", "other"},
                    F \in {{}} \cup {{f} : f \in InstallFaults}}

NoFaults == Course("ok", {})

World(idx, fs, vendored, lock, generated) ==
    [index |-> idx, dirs |-> fs, vendored |-> vendored, lock |-> lock,
     generated |-> generated]

\* the lock files a project starts with: none, and one left by an earlier
\* install of a dependency named a
StartLocks ==
    {<<>>, <<LockedPackage(NameA, <<"0", ".", "9", ".", "0">>, OwnerRepo, Sha256Hex(<<>>))>>}

InstInit ==
    /\ sum = Idle /\ rs = Idle /\ sync = Idle
    /\ last = Idle /\ lastOn = NoEntries
    /\ entries = NoEntries /\ index = NoEntries /\ dirs = NoEntries
    /\ remote \in InstallRemotes
    /\ \E lock \in StartLocks :
          inst = [op |-> "install", m |-> Manifest(NoEntries, NoEntries, NoEntries),
                  done |-> FALSE, ok |-> FALSE, clean |-> FALSE, at |-> "",
                  vendored |-> NoEntries,
                  lock |-> lock, generated |-> FALSE, calls |-> <<>>]

\* the user runs `yuki install`; inst.clean tells that no step of the run failed
InstRun ==
    \E env \in InstallEnvs :
        \E r \in {runInstall(inst.m, World(index, dirs, inst.vendored, inst.lock,
                                           inst.generated), remote, env)} :
            /\ index' = r.w.index
            /\ dirs' = r.w.dirs
            /\ inst' = [inst EXCEPT !.done = TRUE, !.ok = r.ok, !.clean = (env = NoFaults),
                                    !.at = r.at,
                                    !.vendored = r.w.vendored,
                                    !.lock = r.w.lock, !.generated = r.w.generated,
                                    !.calls = r.calls]
            /\ UNCHANGED <<entries, remote, last, lastOn, rs, sum, sync>>

\* the user writes yuki.toml, before the first install
InstEdit ==
    \E m \in Manifests \ {inst.m} :
        /\ ~inst.done
        /\ inst' = [inst EXCEPT !.m = m, !.done = FALSE, !.ok = FALSE, !.clean = FALSE,
                                !.at = "",
                                !.calls = <<>>]
        /\ UNCHANGED <<entries, index, dirs, remote, last, lastOn, rs, sum, sync>>

InstNext ==
    \/ InstRun
    \/ InstEdit

SpecInstall == InstInit /\ [][InstNext]_vars

\* C5: after a successful install of a manifest whose single dependency
\* carries a concrete version constraint, the version in the lock file and
\* the reference retrieved are the greatest remote tag satisfying the
\* constraint: "1.5.0" for ^1.0.0 against tags 1.0.0, 1.5.0, v2.0.0.
InvC5 ==
    (/\ inst.done /\ inst.ok
     /\ DOMAIN GetAllDependencies(inst.m) = {NameA}
     /\ GetAllDependencies(inst.m)[NameA].Git = OwnerRepo
     /\ GetAllDependencies(inst.m)[NameA].Version # <<>>) =>
        LET c == ParseConstraint(GetAllDependencies(inst.m)[NameA].Version)
            sat == {j \in 1..Len(remote.tags) :
                      /\ ParseVersion(remote.tags[j]).ok
                      /\ Satisfies(c, ParseVersion(remote.tags[j]).v)}
            best == CHOOSE j \in sat : \A k \in sat :
                        Compare(ParseVersion(remote.tags[j]).v,
                                ParseVersion(remote.tags[k]).v) >= 0
        IN  /\ sat # {}
            /\ Len(inst.lock) = 1
            /\ inst.lock[1].Version = remote.tags[best]
            /\ inst.vendored[NameA] = TargetDir(<<"o", "w", "n", "e", "r">>, <<"r", "e", "p", "o">>, remote.tags[best])
            /\ (Caret1 = GetAllDependencies(inst.m)[NameA].Version /\ <<"1", ".", "5", ".", "0">> \in Range(remote.tags))
                  => inst.lock[1].Version = <<"1", ".", "5", ".", "0">>

-----------------------------------------------------------------------------
(* runSync (cli/sync.go) and Resolver.ValidateDependencies.                *)

\* Client.GetRepository: the repository answers unless the request fails
GetRepository(owner, repo, err) == ~err

\* Resolver.ValidateDependencies: TRUE when every dependency passes
ValidateDependencies(m, env) ==
    \A name \in DOMAIN GetAllDependencies(m) :
        LET dep == GetAllDependencies(m)[name]
            pr == ParseRepoURL(dep.Git)
        IN  /\ pr.ok
            /\ GetRepository(pr.owner, pr.repo, env.repoErr)
            /\ dep.Version # <<>> => ParseConstraint(dep.Version).ok

\* fmt.Sprintf("'%s' is in manifest but not in lock file", name)
InManifestOnly(name) == <<"'">> \o name \o <<"'", " ", "i", "s", " ", "i", "n", " ", "m", "a", "n", "i", "f", "e", "s", "t", " ", "b", "u", "t", " ", "n", "o", "t", " ", "i", "n", " ", "l", "o", "c", "k", " ", "f", "i", "l", "e">>

\* fmt.Sprintf("'%s' is in lock file but not in manifest", name)
InLockOnly(name) == <<"'">> \o name \o <<"'", " ", "i", "s", " ", "i", "n", " ", "l", "o", "c", "k", " ", "f", "i", "l", "e", " ", "b", "u", "t", " ", "n", "o", "t", " ", "i", "n", " ", "m", "a", "n", "i", "f", "e", "s", "t">>

Synced(ok, err, issues) == [ok |-> ok, err |-> err, issues |-> issues]

\* runSync, lines 44-61: the two loops that collect the inconsistencies
Inconsistencies(manifestDeps, packages) ==
    LET lockPkgMap == {packages[i].Name : i \in 1..Len(packages)}
        names == KeySeq(manifestDeps)
        missing == SelectSeq(names, LAMBDA n : n \notin lockPkgMap)
        extra == SelectSeq(packages, LAMBDA pkg : pkg.Name \notin DOMAIN manifestDeps)
    IN  [i \in 1..Len(missing) |-> InManifestOnly(missing[i])]
        \o [i \in 1..Len(extra) |-> InLockOnly(extra[i].Name)]

\* a mutant of runSync: names only in the lock file are not reported
runSyncOneWay(m, packages, env) ==
    LET manifestDeps == GetAllDependencies(m)
        lockPkgMap == {packages[i].Name : i \in 1..Len(packages)}
        missing == SelectSeq(KeySeq(manifestDeps), LAMBDA n : n \notin lockPkgMap)
        inconsistencies == [i \in 1..Len(missing) |-> InManifestOnly(missing[i])]
    IN  IF env.manifestErr THEN Synced(FALSE, "manifest", <<>>)
        ELSE IF env.lockErr THEN Synced(FALSE, "lock", <<>>)
        ELSE IF Len(inconsistencies) > 0 THEN Synced(FALSE, "drift", inconsistencies)
        ELSE IF ~ValidateDependencies(m, env) THEN Synced(FALSE, "validation", <<>>)
        ELSE Synced(TRUE, "", <<>>)

\* runSync on manifest m and a lock file holding `packages`
runSync(m, packages, env) ==
    LET inconsistencies == Inconsistencies(GetAllDependencies(m), packages)
    IN  IF env.manifestErr THEN Synced(FALSE, "manifest", <<>>)
        ELSE IF env.lockErr THEN Synced(FALSE, "lock", <<>>)
        ELSE IF Len(inconsistencies) > 0 THEN Synced(FALSE, "drift", inconsistencies)
        ELSE IF ~ValidateDependencies(m, env) THEN Synced(FALSE, "validation", <<>>)
        ELSE Synced(TRUE, "", <<>>)

-----------------------------------------------------------------------------
(* Specification SpecSync: runSync on projects whose manifest and lock     *)
(* file name packages out of A, B, C.                                      *)

SyncNames == {<<"A">>, <<"B">>, <<"C">>}

\* the dependencies a manifest section may hold: a sound one, one whose
\* constraint does not parse, one whose locator does not parse
SyncDeps ==
    {VersionDep(Caret1), VersionDep(<<"1", ".", "x">>),
     Dep(<<"n", "o", "w", "h", "e", "r", "e">>, <<>>, <<>>, <<>>, <<>>, FALSE)}

\* a section of a manifest: some names, each with a sound dependency, or C
\* alone with any of the dependencies
Sections ==
    {[n \in S |-> VersionDep(Caret1)] : S \in SUBSET SyncNames}
    \cup {Only(<<"C">>, d) : d \in SyncDeps}

\* manifests: a main section and at most one name in the other two
SyncManifests ==
    {Manifest(deps, dev, build) :
        deps \in Sections,
        dev \in {NoEntries, Only(<<"A">>, VersionDep(Caret1))},
        build \in {NoEntries, Only(<<"B">>, VersionDep(<<"^", "2", ".", "0", ".", "0">>))}}

\* lock files: each name at most once, in any order
SyncLocks ==
    UNION {{[i \in 1..Len(o) |-> LockedPackage(o[i], <<"1", ".", "0", ".", "0">>, OwnerRepo, Sha256Hex(<<>>))] :
              o \in Orders(S)} : S \in SUBSET SyncNames}

SyncEnvs == [manifestErr : BOOLEAN, lockErr : BOOLEAN, repoErr : BOOLEAN]

SyncInit ==
    /\ PipeOff /\ rs = Idle /\ inst = Idle /\ sum = Idle
    /\ \E m \in SyncManifests, l \in SyncLocks :
          sync = [op |-> "sync", m |-> m, lock |-> l, was |-> [m |-> m, lock |-> l],
                  done |-> FALSE, env |-> [manifestErr |-> FALSE, lockErr |-> FALSE,
                                           repoErr |-> FALSE],
                  out |-> Synced(FALSE, "", <<>>)]

\* the user runs `yuki sync`: the command reads both files and writes none
SyncRun ==
    /\ \E env \in SyncEnvs :
          sync' = [sync EXCEPT !.done = TRUE, !.env = env,
                               !.out = runSync(sync.m, sync.lock, env)]
    /\ UNCHANGED <<entries, index, dirs, remote, last, lastOn, rs, inst, sum>>

SyncNext == SyncRun

SpecSync == SyncInit /\ [][SyncNext]_vars

ManifestNames == DOMAIN GetAllDependencies(sync.m)

LockNames == {sync.lock[i].Name : i \in 1..Len(sync.lock)}

\* the issues the claim prescribes, as a set
DriftIssues ==
    {InManifestOnly(n) : n \in ManifestNames \ LockNames}
    \cup {InLockOnly(n) : n \in LockNames \ ManifestNames}

Loaded == sync.done /\ ~sync.env.manifestErr /\ ~sync.env.lockErr

\* C9 as stated: with both files read, the check succeeds iff the name sets
\* are equal, otherwise its issues are exactly one per name on one side only,
\* and neither file is changed.
InvC9Stated ==
    Loaded =>
        /\ sync.out.ok <=> ManifestNames = LockNames
        /\ ~sync.out.ok => /\ Range(sync.out.issues) = DriftIssues
                           /\ Len(sync.out.issues) = Cardinality(DriftIssues)
        /\ sync.m = sync.was.m /\ sync.lock = sync.was.lock

\* C9: with both files read, the check fails with the drift error iff the
\* name sets differ, and then its issues are exactly one per name on one
\* side only; with equal name sets it succeeds iff the manifest's
\* dependencies pass validation; neither file is changed.
InvC9 ==
    Loaded =>
        /\ sync.out.err = "drift" <=> ManifestNames # LockNames
        /\ Range(sync.out.issues) = DriftIssues
        /\ Len(sync.out.issues) = Cardinality(DriftIssues)
        /\ ManifestNames = LockNames =>
              (sync.out.ok <=> ValidateDependencies(sync.m, sync.env))
        /\ ~sync.out.ok => sync.out.err \in {"drift", "validation"}
        /\ sync.m = sync.was.m /\ sync.lock = sync.was.lock

\* manifest {A, B} checked against lock {B, C}: the issues for A and for C
WitC9 ==
    /\ Loaded
    /\ ManifestNames = {<<"A">>, <<"B">>}
    /\ LockNames = {<<"B">>, <<"C">>}
    /\ Range(sync.out.issues) = {InManifestOnly(<<"A">>), InLockOnly(<<"C">>)}


-----------------------------------------------------------------------------
(* Specification SpecKey: the cache key FetchDependency derives            *)
(* (main.go:263-268) for two declarations, each with its own name, locator *)
(* spelling and selector fields.                                           *)

\* the spellings of the locator of github.com/owner/<repo>
Locators(repo) ==
    {<<"o", "w", "n", "e", "r", "/">> \o repo,
     <<"h", "t", "t", "p", "s", ":", "/", "/", "g", "i", "t", "h", "u", "b", ".", "c", "o", "m", "/", "o", "w", "n", "e", "r", "/">> \o repo,
     <<"h", "t", "t", "p", "s", ":", "/", "/", "g", "i", "t", "h", "u", "b", ".", "c", "o", "m", "/", "o", "w", "n", "e", "r", "/">> \o repo \o <<".", "g", "i", "t">>,
     <<"g", "i", "t", "@", "g", "i", "t", "h", "u", "b", ".", "c", "o", "m", ":", "o", "w", "n", "e", "r", "/">> \o repo \o <<".", "g", "i", "t">>}

KeyRepos == {<<"r", "e", "p", "o">>, <<"l", "i", "b">>}

KeyNames == {<<"a">>, <<"b">>}

\* the selector fields of a declaration
KeySelectors ==
    [Version : {<<>>, <<"^", "1", ".", "0", ".", "0">>}, Branch : {<<>>, <<"d", "e", "v">>}, Tag : {<<>>, <<"v", "1", ".", "0", ".", "0">>},
     Rev : {<<>>, <<"a", "b", "c", "1", "2", "3">>}, UseLatestCommit : BOOLEAN]

Declared(name, repo, git, s) ==
    [name |-> name, repo |-> repo,
     dep |-> Dep(git, s.Version, s.Branch, s.Tag, s.Rev, s.UseLatestCommit)]

\* FetchDependency, lines 263-268: the key of a declaration; the name is only
\* logged
KeyFor(name, dep) ==
    LET pr == ParseRepoURL(dep.Git)
    IN  IF pr.ok THEN [ok |-> TRUE, key |-> GenerateCacheKey(pr.owner, pr.repo, dep)]
        ELSE [ok |-> FALSE, key |-> <<>>]

\* the repository of the first declaration and its locator: owner/repo, or
\* repository c of owner a-b
KeyFirst == {<<<<"r", "e", "p", "o">>, <<"o", "w", "n", "e", "r", "/", "r", "e", "p", "o">>>>, <<<<"a", "-", "b", "/", "c">>, <<"a", "-", "b", "/", "c">>>>}

\* the repository of the second declaration and its locator: a repository of
\* owner in one of the spellings, or repository b-c of owner a
KeySecond ==
    UNION {{<<q, g>> : g \in Locators(q)} : q \in KeyRepos}
        \cup {<<<<"a", "/", "b", "-", "c">>, <<"a", "/", "b", "-", "c">>>>}

KeyInit ==
    /\ PipeOff /\ inst = Idle /\ sync = Idle /\ sum = Idle
    /\ \E s \in KeySelectors, t \in KeySelectors, n \in KeyNames,
          x \in KeyFirst, y \in KeySecond :
              rs = [op |-> "key", done |-> FALSE,
                    a |-> Declared(<<"a">>, x[1], x[2], s),
                    b |-> Declared(n, y[1], y[2], t),
                    keyA |-> [ok |-> FALSE, key |-> <<>>],
                    keyB |-> [ok |-> FALSE, key |-> <<>>]]

\* the keys of both declarations are derived
KeyDerive ==
    /\ ~rs.done
    /\ rs' = [rs EXCEPT !.done = TRUE,
                        !.keyA = KeyFor(rs.a.name, rs.a.dep),
                        !.keyB = KeyFor(rs.b.name, rs.b.dep)]
    /\ UNCHANGED <<pipeVars, inst, sum, sync>>

KeyNext == KeyDerive

SpecKey == KeyInit /\ [][KeyNext]_vars

\* the rule of determineRefWithValidation that applies to a dependency, with
\* the value it works on
EffectiveSelector(d) ==
    IF d.Rev # <<>> THEN <<"rev", d.Rev>>
    ELSE IF d.Tag # <<>> THEN <<"tag", d.Tag>>
    ELSE IF d.Branch # <<>> THEN <<"branch", d.Branch>>
    ELSE IF d.UseLatestCommit THEN <<"commit", <<>>>>
    ELSE IF d.Version # <<>> THEN <<"version", d.Version>>
    ELSE <<"none", <<>>>>

\* the first declared field among revision, tag, branch and version
FirstField(d) ==
    IF d.Rev # <<>> THEN <<"rev", d.Rev>>
    ELSE IF d.Tag # <<>> THEN <<"tag", d.Tag>>
    ELSE IF d.Branch # <<>> THEN <<"branch", d.Branch>>
    ELSE IF d.Version # <<>> THEN <<"version", d.Version>>
    ELSE <<"none", <<>>>>

InvC13Locator ==
    (/\ rs.done
     /\ rs.a.repo = rs.b.repo
     /\ FirstField(rs.a.dep) = FirstField(rs.b.dep)) =>
        rs.keyA.ok /\ rs.keyB.ok /\ rs.keyA.key = rs.keyB.key

-----------------------------------------------------------------------------
(* The lock file an install leaves, read by the consistency check of       *)
(* runSync.                                                                *)

\* the lock file holds one package per declared name, with the manifest's
\* locator as source, and the consistency check finds no drift
LockMatches(m, lock) ==
    /\ Len(lock) = Cardinality(DOMAIN GetAllDependencies(m))
    /\ {lock[i].Name : i \in 1..Len(lock)} = DOMAIN GetAllDependencies(m)
    /\ \A i \in 1..Len(lock) :
          /\ lock[i].Source = ManifestDep(m, lock[i].Name).Git
          /\ lock[i].Version # <<>> /\ lock[i].Checksum # <<>>
    /\ Inconsistencies(GetAllDependencies(m), lock) = <<>>

\* C14: after an install that returned success the lock file holds exactly
\* one package per dependency the manifest declares and none for any other
\* name, so that the consistency check reports no drift, whatever lock file
\* the project started with.
InvC14 == (inst.done /\ inst.ok) => LockMatches(inst.m, inst.lock)

\* C14, the part that holds: the same after a successful install of a
\* manifest that declares at least one dependency
InvC14Declared ==
    (inst.done /\ inst.ok /\ DOMAIN GetAllDependencies(inst.m) # {}) =>
        LockMatches(inst.m, inst.lock)

-----------------------------------------------------------------------------
(* runRemove (unnamed/part_002) and specification SpecRemove: `yuki remove` *)
(* run again and again on a project's manifest and lock file.              *)

Removed(ok, m, lock) == [ok |-> ok, m |-> m, lock |-> lock]

\* runRemove, lines 74-80: the packages with another name, in their order
OtherPackages(packages, packageName) ==
    SelectSeq(packages, LAMBDA pkg : pkg.Name # packageName)

\* a mutant of runRemove: the sections are tried one after another and only
\* the first that holds the name loses it
runRemoveFirstSection(m, packages, packageName, env) ==
    LET m2 == IF packageName \in DOMAIN m.Dependencies
              THEN [m EXCEPT !.Dependencies = Without(m.Dependencies, packageName)]
              ELSE IF packageName \in DOMAIN m.DevDeps
              THEN [m EXCEPT !.DevDeps = Without(m.DevDeps, packageName)]
              ELSE [m EXCEPT !.BuildDeps = Without(m.BuildDeps, packageName)]
    IN  IF env.manifestErr THEN Removed(FALSE, m, packages)
        ELSE IF m2 = m THEN Removed(FALSE, m, packages)
        ELSE IF env.saveErr THEN Removed(FALSE, m, packages)
        ELSE IF env.lockErr THEN Removed(FALSE, m2, packages)
        ELSE IF env.lockSaveErr THEN Removed(FALSE, m2, packages)
        ELSE Removed(TRUE, m2, OtherPackages(packages, packageName))

\* runRemove. m and packages are yuki.toml and yuki.lock before the run; a
\* file that cannot be created stays as it was. What follows the saving of
\* the lock file (lines 86-107) only warns.
runRemove(m, packages, packageName, env) ==
    LET removed == \/ packageName \in DOMAIN m.Dependencies
                   \/ packageName \in DOMAIN m.DevDeps
                   \/ packageName \in DOMAIN m.BuildDeps
        m2 == Manifest(Without(m.Dependencies, packageName),
                       Without(m.DevDeps, packageName),
                       Without(m.BuildDeps, packageName))
    IN  IF env.manifestErr THEN Removed(FALSE, m, packages)
        ELSE IF ~removed THEN Removed(FALSE, m, packages)
        ELSE IF env.saveErr THEN Removed(FALSE, m, packages)
        ELSE IF env.lockErr THEN Removed(FALSE, m2, packages)
        ELSE IF env.lockSaveErr THEN Removed(FALSE, m2, packages)
        ELSE Removed(TRUE, m2, OtherPackages(packages, packageName))

\* the lock files of the projects: those of SyncLocks, and one that lists A twice
RemoveLocks ==
    SyncLocks
    \cup {<<LockedPackage(<<"A">>, <<"1", ".", "0", ".", "0">>, OwnerRepo, Sha256Hex(<<>>)),
            LockedPackage(<<"B">>, <<"1", ".", "0", ".", "0">>, OwnerRepo, Sha256Hex(<<>>)),
            LockedPackage(<<"A">>, <<"1", ".", "1", ".", "0">>, OwnerRepo, Sha256Hex(<<>>))>>}

\* the outcomes of the file operations of one run, at most one of them failing
RemoveEnvs ==
    {e \in [manifestErr : BOOLEAN, saveErr : BOOLEAN, lockErr : BOOLEAN,
            lockSaveErr : BOOLEAN] :
        AtMostOne({f \in {"manifestErr", "saveErr", "lockErr", "lockSaveErr"} : e[f]})}

NoRemoveFault ==
    [manifestErr |-> FALSE, saveErr |-> FALSE, lockErr |-> FALSE, lockSaveErr |-> FALSE]

RemInit ==
    /\ PipeOff /\ rs = Idle /\ inst = Idle /\ sum = Idle
    /\ \E m \in SyncManifests, l \in RemoveLocks :
          sync = [op |-> "remove", m |-> m, lock |-> l, was |-> [m |-> m, lock |-> l],
                  name |-> <<>>, env |-> NoRemoveFault, done |-> FALSE, ok |-> FALSE]

\* the user runs `yuki remove <name>`
RemRun ==
    /\ \E name \in SyncNames, env \in RemoveEnvs :
          \E r \in {runRemove(sync.m, sync.lock, name, env)} :
              sync' = [sync EXCEPT !.m = r.m, !.lock = r.lock,
                                   !.was = [m |-> sync.m, lock |-> sync.lock],
                                   !.name = name, !.env = env, !.done = TRUE,
                                   !.ok = r.ok]
    /\ UNCHANGED <<entries, index, dirs, remote, last, lastOn, rs, inst, sum>>

RemNext == RemRun

SpecRemove == RemInit /\ [][RemNext]_vars

\* section S of the manifest is what it was, less the removed name
SectionLess(now, was, name) ==
    /\ DOMAIN now = DOMAIN was \ {name}
    /\ \A n \in DOMAIN now : now[n] = was[n]

\* the sections of the manifest before the run that declare the name
DeclaringSections(m, name) ==
    {s \in {"Dependencies", "DevDeps", "BuildDeps"} : name \in DOMAIN m[s]}

-----------------------------------------------------------------------------
(* Specification SpecSemver: the functions of semver/semver.go applied to  *)
(* bounded texts: two texts compared, a constraint tested on a text, the   *)
(* best match among a list of candidates, and a text parsed, printed and   *)
(* parsed again.                                                           *)

\* version texts, sound and unsound
VersionTexts ==
    {<<"1", ".", "2", ".", "3">>, <<"v", "1", ".", "2", ".", "3">>, <<"1", ".", "2", ".", "2">>, <<"1", ".", "2", ".", "9">>, <<"1", ".", "3", ".", "0">>, <<"1", ".", "9", ".", "0">>, <<"2", ".", "0", ".", "0">>,
     <<"1", ".", "1", "0", ".", "0">>, <<"0", ".", "0", ".", "0">>, <<"1", ".", "2", ".", "3", "-", "a", "l", "p", "h", "a">>, <<"1", ".", "2", ".", "3", "-", "b", "e", "t", "a">>, <<"1", ".", "2", ".", "3", "-", "a", "l", "p", "h", "a", ".", "1">>,
     <<"1", ".", "2", ".", "3", "+", "b", "1">>, <<"1", ".", "2", ".", "3", "+", "b", "2">>, <<"1", ".", "2", ".", "3", "-", "a", "l", "p", "h", "a", "+", "b", "1">>, <<"v", "1", ".", "2", ".", "3", "-", "r", "c", "-", "1">>, <<"0", "1", ".", "2", ".", "3">>,
     <<"1", ".", "2">>, <<"1", ".", "2", ".", "3", "-">>, <<"x", "1", ".", "2", ".", "3">>, <<"1", ".", "2", ".", "3", "+">>, <<>>}

\* constraint texts
ConstraintTexts ==
    {<<"^", "1", ".", "2", ".", "3">>, <<"~", "1", ".", "2", ".", "3">>, <<"^", "v", "1", ".", "2", ".", "3">>, <<" ", "~", "1", ".", "2", ".", "3", " ">>, <<">", "=", "1", ".", "2", ".", "3">>, <<"<", "=", "1", ".", "2", ".", "3">>,
     <<">", "1", ".", "2", ".", "3">>, <<"<", "1", ".", "2", ".", "3">>, <<"=", "1", ".", "2", ".", "3">>, <<"1", ".", "2", ".", "3">>, <<"^", "1", ".", "2">>, <<"^", "1", ".", "2", ".", "3", "-", "b", "e", "t", "a">>}

\* the longest list of candidates
MaxCandidates == 4

\* the versions the candidate lists are made of
CandidateTexts ==
    {<<"1", ".", "0", ".", "0">>, <<"1", ".", "2", ".", "0">>, <<"1", ".", "2", ".", "5">>, <<"2", ".", "0", ".", "0">>, <<"1", ".", "2", ".", "5", "+", "b", "1">>, <<"1", ".", "2", ".", "5", "-", "r", "c">>}

\* the candidate lists: up to MaxCandidates of the candidates, in any order
CandidateLists ==
    UNION {Orders(S) : S \in {T \in SUBSET CandidateTexts : Cardinality(T) <= MaxCandidates}}

\* the constraints of the best-match cases
BestConstraints == {<<"^", "1", ".", "0", ".", "0">>, <<"~", "1", ".", "2", ".", "0">>, <<">", "=", "3", ".", "0", ".", "0">>, <<"=", "1", ".", "2", ".", "5">>}

\* the versions of a list of sound texts
Versions(texts) == [i \in 1..Len(texts) |-> ParseVersion(texts[i]).v]

\* every rearrangement of a list
Rearranged(xs) == {[i \in 1..Len(xs) |-> xs[o[i]]] : o \in Orders(1..Len(xs))}

NoParse == [ok |-> FALSE, v |-> NoVersion]

SvInit ==
    /\ PipeOff /\ inst = Idle /\ sync = Idle /\ sum = Idle
    /\ \/ \E a \in VersionTexts, b \in VersionTexts :
             rs = [op |-> "compare", done |-> FALSE, a |-> a, b |-> b,
                   pa |-> NoParse, pb |-> NoParse, ab |-> 0, ba |-> 0, aa |-> 0]
       \/ \E c \in ConstraintTexts, t \in VersionTexts :
             rs = [op |-> "satisfies", done |-> FALSE, text |-> c, t |-> t,
                   c |-> ParseConstraint(<<>>), p |-> NoParse, sat |-> FALSE]
       \/ \E c \in BestConstraints, l \in CandidateLists :
             rs = [op |-> "best", done |-> FALSE, text |-> c, list |-> l,
                   c |-> ParseConstraint(<<>>), out |-> NoParse, outs |-> {}]
       \/ \E t \in VersionTexts :
             rs = [op |-> "round", done |-> FALSE, t |-> t, p |-> NoParse,
                   s |-> <<>>, q |-> NoParse]

\* both texts are parsed and the versions compared, each way and with itself
SvCompare ==
    /\ rs.op = "compare" /\ ~rs.done
    /\ \E pa \in {ParseVersion(rs.a)}, pb \in {ParseVersion(rs.b)} :
          rs' = [rs EXCEPT !.done = TRUE, !.pa = pa, !.pb = pb,
                           !.ab = Compare(pa.v, pb.v), !.ba = Compare(pb.v, pa.v),
                           !.aa = Compare(pa.v, pa.v)]
    /\ UNCHANGED <<pipeVars, inst, sum, sync>>

\* the constraint and the text are parsed and the constraint tested
SvSatisfies ==
    /\ rs.op = "satisfies" /\ ~rs.done
    /\ \E c \in {ParseConstraint(rs.text)}, p \in {ParseVersion(rs.t)} :
          rs' = [rs EXCEPT !.done = TRUE, !.c = c, !.p = p,
                           !.sat = c.ok /\ p.ok /\ Satisfies(c, p.v)]
    /\ UNCHANGED <<pipeVars, inst, sum, sync>>

\* the best match of the list, and of every rearrangement of it
SvBest ==
    /\ rs.op = "best" /\ ~rs.done
    /\ \E c \in {ParseConstraint(rs.text)} :
          rs' = [rs EXCEPT !.done = TRUE, !.c = c,
                           !.out = FindBestMatch(c, Versions(rs.list)),
                           !.outs = {FindBestMatch(c, Versions(l)) : l \in Rearranged(rs.list)}]
    /\ UNCHANGED <<pipeVars, inst, sum, sync>>

\* the text is parsed, the version printed, and the print parsed
SvRound ==
    /\ rs.op = "round" /\ ~rs.done
    /\ \E p \in {ParseVersion(rs.t)} :
          rs' = [rs EXCEPT !.done = TRUE, !.p = p, !.s = VersionString(p.v),
                           !.q = ParseVersion(VersionString(p.v))]
    /\ UNCHANGED <<pipeVars, inst, sum, sync>>

SvNext ==
    \/ SvCompare
    \/ SvSatisfies
    \/ SvBest
    \/ SvRound

SpecSemver == SvInit /\ [][SvNext]_vars

\* the order the versions are meant to have: by major, minor and patch, then
\* a labelled version before the unlabelled one, then by label as a string
Before(v, w) ==
    \/ v.Major < w.Major
    \/ v.Major = w.Major /\ v.Minor < w.Minor
    \/ v.Major = w.Major /\ v.Minor = w.Minor /\ v.Patch < w.Patch
    \/ /\ v.Major = w.Major /\ v.Minor = w.Minor /\ v.Patch = w.Patch
       /\ \/ v.Prerelease # <<>> /\ w.Prerelease = <<>>
          \/ v.Prerelease # <<>> /\ w.Prerelease # <<>> /\ StrLess(v.Prerelease, w.Prerelease)

\* C16: for parsed versions a and b, Compare(a, b) = -Compare(b, a) and
\* Compare(a, a) = 0; the result is -1, 0 or 1 by the order on (major, minor,
\* patch), then unlabelled above labelled, then the labels as strings; the
\* build metadata plays no part.
InvC16 ==
    (rs.op = "compare" /\ rs.done /\ rs.pa.ok /\ rs.pb.ok) =>
        /\ rs.ab = -rs.ba
        /\ rs.aa = 0
        /\ rs.ab = (IF Before(rs.pa.v, rs.pb.v) THEN -1
                    ELSE IF Before(rs.pb.v, rs.pa.v) THEN 1 ELSE 0)

\* 1.2.3+b1 and 1.2.3-alpha+b1 were compared: the unlabelled one is greater,
\* and equal to 1.2.3+b2
WitC16 ==
    /\ rs.op = "compare" /\ rs.done
    /\ rs.a = <<"1", ".", "2", ".", "3", "+", "b", "1">> /\ rs.b = <<"1", ".", "2", ".", "3", "-", "a", "l", "p", "h", "a", "+", "b", "1">>
    /\ rs.ab = 1 /\ rs.ba = -1
    /\ Compare(rs.pa.v, ParseVersion(<<"1", ".", "2", ".", "3", "+", "b", "2">>).v) = 0

\* C17: ^V is satisfied by exactly the versions with V's major that are not
\* before V, ~V by exactly those with V's major and minor that are not before
\* V; ^1.2.3 accepts 1.2.3 and 1.9.0 and rejects 2.0.0 and 1.2.2, ~1.2.3
\* accepts 1.2.9 and rejects 1.3.0.
InvC17 ==
    (rs.op = "satisfies" /\ rs.done /\ rs.c.ok /\ rs.p.ok) =>
        LET V == rs.c.Version
            v == rs.p.v
        IN  /\ rs.c.Operator = <<"^">> =>
                  (rs.sat <=> (v.Major = V.Major /\ ~Before(v, V)))
            /\ rs.c.Operator = <<"~">> =>
                  (rs.sat <=> (v.Major = V.Major /\ v.Minor = V.Minor /\ ~Before(v, V)))
            /\ rs.text = <<"^", "1", ".", "2", ".", "3">> =>
                  /\ rs.t \in {<<"1", ".", "2", ".", "3">>, <<"1", ".", "9", ".", "0">>} => rs.sat
                  /\ rs.t \in {<<"2", ".", "0", ".", "0">>, <<"1", ".", "2", ".", "2">>} => ~rs.sat
            /\ rs.text = <<"~", "1", ".", "2", ".", "3">> =>
                  /\ rs.t = <<"1", ".", "2", ".", "9">> => rs.sat
                  /\ rs.t = <<"1", ".", "3", ".", "0">> => ~rs.sat

\* ^1.2.3 was tested on 1.9.0 and accepted it
WitC17 ==
    /\ rs.op = "satisfies" /\ rs.done
    /\ rs.text = <<"^", "1", ".", "2", ".", "3">> /\ rs.t = <<"1", ".", "9", ".", "0">> /\ rs.sat

\* the candidates of the list that satisfy the constraint
Satisfying == {v \in Range(Versions(rs.list)) : Satisfies(rs.c, v)}

\* C18: in whatever order the list is given, the best match is a satisfying
\* candidate that no satisfying candidate exceeds, equal under Compare to the
\* best match of every other order, and there is none iff no candidate
\* satisfies; {1.0.0, 1.2.0, 1.2.5, 2.0.0} under ^1.0.0 gives 1.2.5.
InvC18 ==
    (rs.op = "best" /\ rs.done) =>
        /\ \A o \in rs.outs :
              /\ o.ok <=> Satisfying # {}
              /\ o.ok => /\ o.v \in Satisfying
                         /\ \A w \in Satisfying : ~Before(o.v, w)
                         /\ Compare(o.v, rs.out.v) = 0
        /\ rs.out \in rs.outs
        /\ (rs.text = <<"^", "1", ".", "0", ".", "0">>
            /\ Range(rs.list) = {<<"1", ".", "0", ".", "0">>, <<"1", ".", "2", ".", "0">>, <<"1", ".", "2", ".", "5">>, <<"2", ".", "0", ".", "0">>}) =>
               rs.outs = {[ok |-> TRUE, v |-> ParseVersion(<<"1", ".", "2", ".", "5">>).v]}

\* the best match under ^1.0.0 of a list that holds 1.2.5+b1 before 1.2.5
WitC18 ==
    /\ rs.op = "best" /\ rs.done /\ rs.text = <<"^", "1", ".", "0", ".", "0">>
    /\ rs.list = <<<<"1", ".", "0", ".", "0">>, <<"1", ".", "2", ".", "5", "+", "b", "1">>, <<"2", ".", "0", ".", "0">>, <<"1", ".", "2", ".", "5">>>>
    /\ rs.out.ok /\ rs.out.v = ParseVersion(<<"1", ".", "2", ".", "5", "+", "b", "1">>).v

\* C19: a version parsed from a text without build metadata, printed and
\* parsed again, is the same version; the print starts with a digit, not
\* with the v the text may have started with.
InvC19 ==
    (rs.op = "round" /\ rs.done /\ rs.p.ok /\ rs.p.v.Build = <<>>) =>
        /\ rs.q.ok
        /\ rs.q.v = rs.p.v
        /\ IsDigit(rs.s[1])

\* v1.2.3-rc-1 went the round: printed as 1.2.3-rc-1
WitC19 ==
    /\ rs.op = "round" /\ rs.done
    /\ rs.t = <<"v", "1", ".", "2", ".", "3", "-", "r", "c", "-", "1">>
    /\ rs.s = <<"1", ".", "2", ".", "3", "-", "r", "c", "-", "1">>
    /\ rs.q.ok /\ rs.q.v.Prerelease = <<"r", "c", "-", "1">>

\* the manifest's one dependency has the sentinel "latest" for its version
\* constraint and no other selector
DeclaresLatest(m) ==
    /\ DOMAIN GetAllDependencies(m) = {NameA}
    /\ GetAllDependencies(m)[NameA] = VersionDep(<<"l", "a", "t", "e", "s", "t">>)

\* C20: an install, none of whose steps failed, of a dependency whose version
\* constraint is the sentinel "latest", against a remote that has a latest
\* release, succeeds: the release's tag is the locked version and the
\* reference retrieved, and no tag was probed.
InvC20 ==
    (inst.done /\ inst.clean /\ DeclaresLatest(inst.m) /\ remote.release # <<>>) =>
        /\ inst.ok
        /\ Len(inst.lock) = 1
        /\ inst.lock[1].Version = remote.release
        /\ inst.vendored[NameA] = TargetDir(<<"o", "w", "n", "e", "r">>, <<"r", "e", "p", "o">>, remote.release)
        /\ "probe" \notin CallKinds(inst.calls)

-----------------------------------------------------------------------------
(* Specification SpecClone: one cloneRepository call (main.go:136-190), as *)
(* FetchDependency makes it on a cache miss, for a tag, a short revision   *)
(* and a full commit id, into a cache directory that may already hold a    *)
(* tree at the target path.                                                *)

\* the references retrieved
CloneRefs == {<<"v", "2", ".", "0", ".", "0">>, <<"a", "b", "c", "1", "2", "3">>, ShaMain}

\* a tree left at the target path by an earlier retrieval
StaleTree == {[rel |-> <<Nb>>, data |-> <<"o", "l", "d">>]} \cup GitMeta

\* the references that are full commit ids
IsCommitId(ref) == Len(ref) = ShaLen /\ IsHexString(ref)

CloneInit ==
    /\ entries = NoEntries /\ index = NoEntries
    /\ remote = Idle /\ last = Idle /\ lastOn = NoEntries
    /\ inst = Idle /\ sync = Idle /\ sum = Idle
    /\ \E ref \in CloneRefs :
          /\ dirs \in {NoEntries, Only(TargetDir(<<"o", "w", "n", "e", "r">>, <<"r", "e", "p", "o">>, ref), StaleTree)}
          /\ rs = [op |-> "clone", ref |-> ref, done |-> FALSE, was |-> dirs,
                   env |-> [rmErr |-> FALSE, mkdirErr |-> FALSE, shallow |-> "ok",
                            fullErr |-> FALSE, checkoutErr |-> FALSE,
                            stripErr |-> FALSE],
                   out |-> [ok |-> FALSE, path |-> <<>>, calls |-> <<>>]]

\* the retrieval of the reference
CloneRun ==
    /\ rs.op = "clone" /\ ~rs.done
    /\ \E env \in CloneEnvs :
          \E c \in {cloneRepository(dirs, <<"o", "w", "n", "e", "r">>, <<"r", "e", "p", "o">>, rs.ref, env)} :
              /\ dirs' = c.dirs
              /\ rs' = [rs EXCEPT !.done = TRUE, !.env = env,
                                  !.out = [ok |-> c.ok, path |-> c.path, calls |-> c.calls]]
    /\ UNCHANGED <<entries, index, remote, last, lastOn, inst, sum, sync>>

CloneNext == CloneRun

SpecClone == CloneInit /\ [][CloneNext]_vars

\* the subprocesses of the finished retrieval, by kind, in order
CloneSteps == [i \in 1..Len(rs.out.calls) |-> rs.out.calls[i].kind]

\* the retrieval got as far as its first subprocess
CloneStarted == rs.done /\ ~rs.env.rmErr /\ ~rs.env.mkdirErr

\* the policy for a reference that is first tried with a shallow clone
ShallowFirst ==
    /\ CloneSteps \in {<<"shallow">>, <<"shallow", "clone">>,
                       <<"shallow", "clone", "checkout">>}
    /\ Len(CloneSteps) >= 2 <=> rs.env.shallow = "notfound"
    /\ Len(CloneSteps) = 3 <=> (rs.env.shallow = "notfound" /\ ~rs.env.fullErr)
    /\ rs.out.ok <=> \/ rs.env.shallow = "ok"
                     \/ /\ rs.env.shallow = "notfound"
                        /\ ~rs.env.fullErr /\ ~rs.env.checkoutErr

-----------------------------------------------------------------------------
(* Specification SpecShare: FetchDependency calls for two dependencies on  *)
(* the same repository, one by tag and one by version constraint, that     *)
(* resolve to the same reference, over one Cache and one cache directory;  *)
(* between the calls something outside the program may change a retrieved  *)
(* tree. `last.was` is the cache directory before the latest operation.    *)

\* the tag selector and the version selector that resolve to tag v2.0.0
ByTag == Dep(OwnerRepo, <<>>, <<>>, <<"v", "2", ".", "0", ".", "0">>, <<>>, FALSE)
ByVersion == Dep(OwnerRepo, <<"2", ".", "0", ".", "0">>, <<>>, <<>>, <<>>, FALSE)

ShareDeps == {ByTag, ByVersion}

\* the calls in which every remote call answers and at most one local step
\* fails
ShareEnvs(dep) == {e \in FetchEnvs(dep) : RemoteFaults(e) = {}}

\* a file something outside the program writes into a retrieved tree
Foreign == [rel |-> <<Nb>>, data |-> <<"e", "d", "i", "t">>]

Did(op, f, was) ==
    [op |-> op, key |-> f.key, ok |-> f.ok, hit |-> f.hit, stage |-> f.stage,
     res |-> f.res, calls |-> f.calls, was |-> was]

ShareInit ==
    /\ resolveOff
    /\ entries = NoEntries /\ index = NoEntries /\ dirs = NoEntries
    /\ lastOn = NoEntries
    /\ remote = FetchRemote
    /\ last = Did("init", Quiet("init", <<>>), NoEntries)

\* one call of FetchDependency
ShareFetch ==
    \E dep \in ShareDeps : \E env \in ShareEnvs(dep) :
        \E f \in {FetchDependency(entries, index, dirs, remote, dep, env)} :
            /\ entries' = f.entries
            /\ index' = f.index
            /\ dirs' = f.dirs
            /\ last' = Did("fetch", f, dirs)
            /\ UNCHANGED <<lastOn, remote, rs, inst, sum, sync>>

\* something outside the program writes a file into the directory an entry
\* names
ShareEdit ==
    \E key \in DOMAIN entries :
        LET path == entries[key].Path
        IN  /\ Exists(dirs, path)
            /\ Foreign \notin dirs[path]
            /\ dirs' = With(dirs, path, dirs[path] \cup {Foreign})
            /\ last' = Did("edit", Quiet("edit", key), dirs)
            /\ UNCHANGED <<entries, index, lastOn, remote, rs, inst, sum, sync>>

ShareNext == ShareFetch \/ ShareEdit

SpecShare == ShareInit /\ [][ShareNext]_vars

\* the reference the latest call retrieved: that of its last subprocess
RetrievedRef == last.calls[Len(last.calls)].arg

\* the tree checksum of the directory at path, now
TreeChecksum(path) ==
    CalculateDirectoryChecksum(path, dirs[path], Sep, SomeOrder(dirs[path]))

\* the latest operation was a FetchDependency that missed the cache and
\* succeeded
FetchedAfresh == last.op = "fetch" /\ last.ok /\ ~last.hit

\* C24: after a successful FetchDependency that missed the cache, the
\* directory keyed by owner, repository and reference holds exactly the tree
\* retrieved at the resolved reference, with nothing of a directory that was
\* there before and with no version-control metadata, and the checksum
\* returned and stored in the cache is the tree checksum of that directory.
InvC24 ==
    FetchedAfresh =>
        /\ last.res.Path = TargetDir(<<"o", "w", "n", "e", "r">>, <<"r", "e", "p", "o">>, RetrievedRef)
        /\ Exists(dirs, last.res.Path)
        /\ dirs[last.res.Path] = RemoteTree(RetrievedRef)
        /\ last.res.Checksum = TreeChecksum(last.res.Path)
        /\ last.key \in DOMAIN entries /\ entries[last.key] = last.res

\* the part of C24 that holds: apart from version-control metadata, the
\* directory holds exactly the retrieved tree, and the checksum returned and
\* stored is its tree checksum
InvC24Tree ==
    FetchedAfresh =>
        /\ last.res.Path = TargetDir(<<"o", "w", "n", "e", "r">>, <<"r", "e", "p", "o">>, RetrievedRef)
        /\ Exists(dirs, last.res.Path)
        /\ StripGit(dirs[last.res.Path]) = RemoteTree(RetrievedRef)
        /\ last.res.Checksum = TreeChecksum(last.res.Path)
        /\ last.key \in DOMAIN entries /\ entries[last.key] = last.res

\* a retrieval replaced a directory that held a foreign file
WitC24Tree ==
    /\ FetchedAfresh
    /\ Exists(last.was, last.res.Path)
    /\ Foreign \in last.was[last.res.Path]

\* C25: a FetchDependency call neither deletes nor overwrites the directory
\* recorded as the path of a cache entry whose key differs from the call's
\* cache key, whether the call succeeds or fails.
InvC25 ==
    last.op = "fetch" =>
        \A K \in DOMAIN entries \ {last.key} :
            Exists(last.was, entries[K].Path) =>
                /\ Exists(dirs, entries[K].Path)
                /\ dirs[entries[K].Path] = last.was[entries[K].Path]

\* the part of C25 that holds: a call answered from the cache leaves every
\* directory as it was
InvC25Hit == (last.op = "fetch" /\ last.hit) => dirs = last.was

\* C26: every result FetchDependency returns, on a cache miss and on a cache
\* hit alike, carries the tree checksum of the directory at its path as it
\* is when the call returns.
InvC26 ==
    (last.op = "fetch" /\ last.ok) =>
        /\ Exists(dirs, last.res.Path)
        /\ last.res.Checksum = TreeChecksum(last.res.Path)

\* the part of C26 that holds: the result of a call that missed the cache
\* carries the tree checksum of its directory
InvC26Miss ==
    FetchedAfresh =>
        /\ Exists(dirs, last.res.Path)
        /\ last.res.Checksum = TreeChecksum(last.res.Path)

\* C27: two declarations that differ in repository owner, repository name,
\* effective selector kind or selector value never get the same cache key.
InvC27 ==
    (/\ rs.done /\ rs.keyA.ok /\ rs.keyB.ok
     /\ \/ rs.a.repo # rs.b.repo
        \/ EffectiveSelector(rs.a.dep) # EffectiveSelector(rs.b.dep)) =>
        rs.keyA.key # rs.keyB.key

\* the repositories whose owner and name hold no hyphen
Unhyphened == KeyRepos

\* the part of C27 that holds: two declarations of repositories with no
\* hyphen in owner and name that differ in the repository or in the first
\* declared field among revision, tag, branch and version get different keys
InvC27Plain ==
    (/\ rs.done /\ rs.keyA.ok /\ rs.keyB.ok
     /\ rs.a.repo \in Unhyphened /\ rs.b.repo \in Unhyphened
     /\ \/ rs.a.repo # rs.b.repo
        \/ FirstField(rs.a.dep) # FirstField(rs.b.dep)) =>
        rs.keyA.key # rs.keyB.key

\* the announcements of the latest install run: "Installing 'N'" (install)
\* and "Installed 'N@V'" (installed), in order
Announced == SelectSeq(inst.calls, LAMBDA c : c.kind \in {"install", "installed"})

\* the dependency names of the manifest in ascending order
InstallOrder == SortStrings(KeySeq(GetAllDependencies(inst.m)))

\* the announcements of a run that installed the first k dependencies in
\* ascending order, one after the other
RECURSIVE OneByOne(_, _)
OneByOne(names, k) ==
    IF k = 0 THEN <<>>
    ELSE <<Call("install", names[1]), Call("installed", names[1])>>
             \o OneByOne(Tail(names), k - 1)

\* a run that went through its dependencies
InstallLooped == inst.done /\ inst.at \in {"dependency", "save", "generate", "done"}

\* the state half of C28: the dependencies are taken one at a time in
\* ascending name order, each one fetched and vendored before the next is
\* announced, and a run that failed at a dependency announced that one last
InvC28Order ==
    /\ (InstallLooped /\ inst.at # "dependency") =>
          Announced = OneByOne(InstallOrder, Len(InstallOrder))
    /\ (InstallLooped /\ inst.at = "dependency") =>
          /\ ~inst.ok
          /\ \E k \in 1..Len(InstallOrder) :
                Announced = OneByOne(InstallOrder, k - 1)
                                \o <<Call("install", InstallOrder[k])>>

\* C28: install takes the dependencies one at a time in ascending name
\* order, each fetch finishing before the next starts; when fetching or
\* vendoring a dependency fails, install fails, fetches no later dependency
\* and leaves the lock file as it was before the run.
PropC28 ==
    /\ []InvC28Order
    /\ [][(inst'.done /\ inst'.at = "dependency") => inst'.lock = inst.lock]_vars

\* the second of two dependencies failed after the first was installed, and
\* the lock file is the one the project started with
WitC28 ==
    /\ inst.done /\ inst.at = "dependency"
    /\ Announced = <<Call("install", NameA), Call("installed", NameA),
                     Call("install", NameB)>>
    /\ Len(inst.lock) = 1 /\ inst.lock[1].Version = <<"0", ".", "9", ".", "0">>

-----------------------------------------------------------------------------
(* Specification SpecAgree: one dependency resolved twice against the same *)
(* remote with every call answered, by the Resolver as install does before *)
(* it fetches (resolveVersion) and by the Fetcher                          *)
(* (determineRefWithValidation).                                           *)

\* every request of the Resolver is answered
ApiAnswers == [apiTagsErr |-> FALSE, apiRelErr |-> FALSE]

AgreeInit ==
    /\ PipeOff /\ inst = Idle /\ sync = Idle /\ sum = Idle
    /\ \E d \in SelectorDeps, r \in Remotes :
          rs = [op |-> "agree", dep |-> d, rem |-> r, done |-> FALSE,
                pre |-> Unresolved, out |-> NoRef(<<>>)]

\* the dependency is resolved by the Resolver and then by the Fetcher
AgreeResolve ==
    /\ rs.op = "agree" /\ ~rs.done
    /\ rs' = [rs EXCEPT !.done = TRUE,
                        !.pre = resolveVersion(rs.rem, rs.dep, ApiAnswers),
                        !.out = determineRefWithValidation(rs.rem, rs.dep, NoEnv)]
    /\ UNCHANGED <<pipeVars, inst, sum, sync>>

AgreeNext == AgreeResolve

SpecAgree == AgreeInit /\ [][AgreeNext]_vars

\* C29: for every dependency and remote, the Resolver's resolution succeeds
\* exactly when the Fetcher's does, and the version it computes is the
\* version the Fetcher reports.
InvC29 ==
    rs.done =>
        /\ rs.pre.ok <=> rs.out.ok
        /\ rs.pre.ok => rs.pre.version = rs.out.version

\* the part of C29 that holds: for a dependency with a revision, a tag or a
\* branch both succeed with the declared value
InvC29Pinned ==
    (/\ rs.done
     /\ (rs.dep.Rev # <<>> \/ rs.dep.Tag # <<>> \/ rs.dep.Branch # <<>>)) =>
        /\ rs.pre.ok /\ rs.out.ok
        /\ rs.pre.version = rs.out.version

-----------------------------------------------------------------------------
(* Specification SpecTwo: two Cache instances over one cache directory, as *)
(* two yuki processes hold them. Each loads index.json (cache.New) and     *)
(* then stores an entry under its own key (Cache.Set), in any              *)
(* interleaving; a third Cache is constructed after both. Here `entries`   *)
(* maps an instance to its in-memory mapping, `index` is the one           *)
(* index.json, and `rs` holds the steps taken.                             *)

Instances == {1, 2}

\* the key each instance stores
TwoKeys == <<<<"o", "w", "n", "e", "r", "-", "r", "e", "p", "o", "-", "l", "a", "t", "e", "s", "t">>, <<"o", "w", "n", "e", "r", "-", "l", "i", "b", "-", "l", "a", "t", "e", "s", "t">>>>

\* the entries the instances store
TwoEntries ==
    {Entry(TargetDir(<<"o", "w", "n", "e", "r">>, <<"r", "e", "p", "o">>, <<"v", "1", ".", "0", ".", "0">>), Sha256Hex(<<>>), <<"v", "1", ".", "0", ".", "0">>, <<>>),
     Entry(TargetDir(<<"o", "w", "n", "e", "r">>, <<"r", "e", "p", "o">>, <<"v", "2", ".", "0", ".", "0">>), Sha256Hex(<<>>), <<"v", "2", ".", "0", ".", "0">>, <<>>)}

\* the index.json the two processes find: none, or one with an older entry
TwoIndexes ==
    {NoEntries,
     MarshalIndex(Only(<<"o", "w", "n", "e", "r", "-", "o", "l", "d", "-", "l", "a", "t", "e", "s", "t">>,
                       Entry(TargetDir(<<"o", "w", "n", "e", "r">>, <<"o", "l", "d">>, <<"v", "0", ".", "1", ".", "0">>), Sha256Hex(<<>>),
                             <<"v", "0", ".", "1", ".", "0">>, <<>>)))}

Step(kind, who) == [kind |-> kind, who |-> who]

TwoInit ==
    /\ dirs = NoEntries /\ remote = Idle /\ last = Idle /\ lastOn = NoEntries
    /\ inst = Idle /\ sync = Idle /\ sum = Idle
    /\ index \in TwoIndexes
    /\ entries = [p \in Instances |-> NoEntries]
    /\ rs = [op |-> "two", steps |-> <<>>, wrote |-> [p \in Instances |-> FALSE],
             later |-> Idle]

\* process p constructs its Cache: cache.New reads index.json
TwoNew(p) ==
    /\ \A i \in 1..Len(rs.steps) : rs.steps[i].who # p
    /\ entries' = [entries EXCEPT ![p] = New(index, TRUE)]
    /\ rs' = [rs EXCEPT !.steps = Append(@, Step("new", p))]
    /\ UNCHANGED <<index, dirs, remote, last, lastOn, inst, sum, sync>>

\* process p stores its entry: Cache.Set updates its mapping and writes the
\* whole of it to index.json
TwoSet(p) ==
    /\ Step("new", p) \in Range(rs.steps)
    /\ Step("set", p) \notin Range(rs.steps)
    /\ \E e \in TwoEntries, writeOk \in BOOLEAN :
          \E s \in {Set(entries[p], index, TwoKeys[p], e, writeOk)} :
              /\ entries' = [entries EXCEPT ![p] = s.entries]
              /\ index' = s.index
              /\ rs' = [rs EXCEPT !.steps = Append(@, Step("set", p)),
                                  !.wrote[p] = writeOk]
    /\ UNCHANGED <<dirs, remote, last, lastOn, inst, sum, sync>>

\* a Cache is constructed after both have stored their entries
TwoLater ==
    /\ \A p \in Instances : Step("set", p) \in Range(rs.steps)
    /\ rs.later = Idle
    /\ rs' = [rs EXCEPT !.later = New(index, TRUE)]
    /\ UNCHANGED <<pipeVars, inst, sum, sync>>

TwoNext ==
    \/ \E p \in Instances : TwoNew(p)
    \/ \E p \in Instances : TwoSet(p)
    \/ TwoLater

SpecTwo == TwoInit /\ [][TwoNext]_vars

\* both instances wrote index.json and a later Cache has been constructed
BothWrote == rs.later # Idle /\ \A p \in Instances : rs.wrote[p]

\* the later Cache holds the entry instance p stored
Persisted(p) ==
    /\ TwoKeys[p] \in DOMAIN rs.later
    /\ rs.later[TwoKeys[p]] = entries[p][TwoKeys[p]]

\* C30: when two Cache instances over the same cache root each load the
\* index and then each store a distinct key, in any interleaving, a Cache
\* constructed after both writes holds both entries.
InvC30 == BothWrote => \A p \in Instances : Persisted(p)

\* the position of a step among the steps taken
At(step) == CHOOSE i \in 1..Len(rs.steps) : rs.steps[i] = step

\* the part of C30 that holds: the entry written last is kept, and both are
\* kept when one instance loaded the index only after the other had written
InvC30Serial ==
    BothWrote =>
        /\ Persisted(rs.steps[Len(rs.steps)].who)
        /\ \A p, q \in Instances :
              (p # q /\ At(Step("set", p)) < At(Step("new", q))) => (Persisted(p) /\ Persisted(q))

\* instance 2 loaded the index after instance 1 had written, and the later
\* Cache holds both entries
WitC30Serial ==
    /\ BothWrote
    /\ At(Step("set", 1)) < At(Step("new", 2))
    /\ Persisted(1) /\ Persisted(2)
=============================================================================
